---- MODULE Spec2Model ----
(***************************************************************************)
(* A model of the Comexstat MCP server (src/src/ComexstatMCP.ts): the tool *)
(* registry with its zod schemas, the tool handlers, and the               *)
(* ComexstatClient that maps each call to one HTTP request and shapes the  *)
(* response.                                                               *)
(*                                                                         *)
(* JavaScript values are tagged records, so that values of different       *)
(* runtime types can be told apart (typeof) and compared:                  *)
(*   [str |-> "pt"]  [num |-> 105]  [bool |-> TRUE]  [undef |-> TRUE]      *)
(*   [null |-> TRUE] [arr |-> <<v1, v2>>]  [obj |-> << <<k1, v1>>, ... >>] *)
(* An object keeps its properties in insertion order, as JavaScript does.  *)
(***************************************************************************)
EXTENDS Integers, Sequences, FiniteSets, TLC

VARIABLES calls, config, catalog

vars == <<calls, config, catalog>>

---------------------------------------------------------------------------
(* JavaScript values *)

Str(s) == [str |-> s]
Num(n) == [num |-> n]
Bool(b) == [bool |-> b]
Undefined == [undef |-> TRUE]
Null == [null |-> TRUE]
Arr(seq) == [arr |-> seq]
Obj(pairs) == [obj |-> pairs]

IsStr(v) == "str" \in DOMAIN v
IsNum(v) == "num" \in DOMAIN v
IsBool(v) == "bool" \in DOMAIN v
IsUndefined(v) == "undef" \in DOMAIN v
IsNull(v) == "null" \in DOMAIN v
IsArr(v) == "arr" \in DOMAIN v
IsObj(v) == "obj" \in DOMAIN v
IsNullish(v) == IsUndefined(v) \/ IsNull(v)

\* `key in object`
HasKey(o, k) == IsObj(o) /\ \E i \in 1..Len(o.obj) : o.obj[i][1] = k

\* object[key]: undefined when the property is missing
Get(o, k) ==
    IF HasKey(o, k)
    THEN o.obj[CHOOSE i \in 1..Len(o.obj) : o.obj[i][1] = k][2]
    ELSE Undefined

\* Object.keys(o)
Keys(o) == [i \in 1..Len(o.obj) |-> o.obj[i][1]]

\* JavaScript truthiness: false, 0, "", null and undefined are falsy
Truthy(v) ==
    CASE IsUndefined(v) -> FALSE
      [] IsNull(v) -> FALSE
      [] IsBool(v) -> v.bool
      [] IsNum(v) -> v.num # 0
      [] IsStr(v) -> v.str # ""
      [] OTHER -> TRUE

\* a || b
OrElse(a, b) == IF Truthy(a) THEN a ELSE b

\* a default parameter value (f(x = d)): used when the argument is undefined
DefaultParam(v, d) == IF IsUndefined(v) THEN d ELSE v

RECURSIVE JoinStrings(_, _)
JoinStrings(seq, sep) ==
    IF Len(seq) = 0 THEN ""
    ELSE IF Len(seq) = 1 THEN seq[1]
    ELSE seq[1] \o sep \o JoinStrings(Tail(seq), sep)

\* String(v), as a template literal or RegExp.test converts its argument
RECURSIVE ToStr(_)
ToStr(v) ==
    CASE IsStr(v) -> v.str
      [] IsNum(v) -> ToString(v.num)
      [] IsBool(v) -> IF v.bool THEN "true" ELSE "false"
      [] IsUndefined(v) -> "undefined"
      [] IsNull(v) -> "null"
      [] IsArr(v) ->
           JoinStrings([i \in 1..Len(v.arr) |->
                          IF IsNullish(v.arr[i]) THEN "" ELSE ToStr(v.arr[i])], ",")
      [] OTHER -> "[object Object]"

\* JSON.stringify(v): undefined has no JSON text, and JSON.stringify returns
\* undefined for it; inside an object an undefined property is left out,
\* inside an array it is written null
RECURSIVE JSONText(_)
JSONText(v) ==
    CASE IsStr(v) -> "\"" \o v.str \o "\""
      [] IsNum(v) -> ToString(v.num)
      [] IsBool(v) -> IF v.bool THEN "true" ELSE "false"
      [] IsNull(v) -> "null"
      [] IsUndefined(v) -> "null"
      [] IsArr(v) ->
           "[" \o JoinStrings([i \in 1..Len(v.arr) |-> JSONText(v.arr[i])], ",") \o "]"
      [] OTHER ->
           LET kept == SelectSeq(v.obj, LAMBDA p : ~IsUndefined(p[2]))
           IN "{" \o JoinStrings([i \in 1..Len(kept) |->
                                    "\"" \o kept[i][1] \o "\":" \o JSONText(kept[i][2])],
                                 ",") \o "}"

JSONstringify(v) == IF IsUndefined(v) THEN Undefined ELSE Str(JSONText(v))

---------------------------------------------------------------------------
(* Regular expressions: a pattern is a sequence of atoms, "d" for \d and   *)
(* any other one-character string for itself, anchored at both ends.       *)

Digits == {"0", "1", "2", "3", "4", "5", "6", "7", "8", "9"}

CharAt(s, i) == SubSeq(s, i, i)

\* RegExp.prototype.test for an anchored pattern of one-character atoms
RegexTest(pattern, s) ==
    /\ Len(s) = Len(pattern)
    /\ \A i \in 1..Len(pattern) :
         IF pattern[i] = "d" THEN CharAt(s, i) \in Digits
                             ELSE CharAt(s, i) = pattern[i]

\* /^\d{4}-\d{2}$/ as the tool schemas write it
schemaPeriodRegex == <<"d", "d", "d", "d", "-", "d", "d">>

\* /^\d{4}-\d{2}$/ as the client's pre-flight check writes it
dateFormatRegex == <<"d", "d", "d", "d", "-", "d", "d">>

---------------------------------------------------------------------------
(* zod schemas, as the tool registrations build them, and zod's parse.     *)
(* A schema is a record tagged by kind; parse returns the parsed value     *)
(* (defaults filled in, unknown keys stripped) or the issues, each with    *)
(* the path of the offending field and zod's issue code.                   *)

zString == [kind |-> "string"]
zStringRegex(pattern) == [kind |-> "regex", pattern |-> pattern]
zNumber == [kind |-> "number"]
zBoolean == [kind |-> "boolean"]
zEnum(values) == [kind |-> "enum", values |-> values]
zArray(elem) == [kind |-> "array", elem |-> elem]
zObject(shape) == [kind |-> "object", shape |-> shape]
zOptional(inner) == [kind |-> "optional", inner |-> inner]
zDefault(inner, def) == [kind |-> "default", inner |-> inner, def |-> def]
\* a.or(b) that keeps the first alternative alone
zOrFirstOnly(first, second) == first

zOr(first, second) == [kind |-> "union", options |-> <<first, second>>]

ParseOk(v) == [ok |-> TRUE, value |-> v, issues |-> <<>>]
ParseFail(path, code) ==
    [ok |-> FALSE, value |-> Undefined, issues |-> <<[path |-> path, code |-> code]>>]

RECURSIVE Flatten(_)
Flatten(seqs) == IF Len(seqs) = 0 THEN <<>> ELSE Head(seqs) \o Flatten(Tail(seqs))

SubPath(path, key) == IF path = "" THEN key ELSE path \o "." \o key

RECURSIVE Parse(_, _, _)
Parse(schema, v, path) ==
    CASE schema.kind = "string" ->
           IF IsStr(v) THEN ParseOk(v) ELSE ParseFail(path, "invalid_type")
      [] schema.kind = "regex" ->
           IF ~IsStr(v) THEN ParseFail(path, "invalid_type")
           ELSE IF RegexTest(schema.pattern, v.str) THEN ParseOk(v)
           ELSE ParseFail(path, "invalid_string")
      [] schema.kind = "number" ->
           IF IsNum(v) THEN ParseOk(v) ELSE ParseFail(path, "invalid_type")
      [] schema.kind = "boolean" ->
           IF IsBool(v) THEN ParseOk(v) ELSE ParseFail(path, "invalid_type")
      [] schema.kind = "enum" ->
           IF ~IsStr(v) THEN ParseFail(path, "invalid_type")
           ELSE IF v.str \in schema.values THEN ParseOk(v)
           ELSE ParseFail(path, "invalid_enum_value")
      [] schema.kind = "optional" ->
           IF IsUndefined(v) THEN ParseOk(Undefined) ELSE Parse(schema.inner, v, path)
      [] schema.kind = "default" ->
           Parse(schema.inner, IF IsUndefined(v) THEN schema.def ELSE v, path)
      [] schema.kind = "union" ->
           LET first == Parse(schema.options[1], v, path)
               second == Parse(schema.options[2], v, path)
           IN IF first.ok THEN first
              ELSE IF second.ok THEN second
              ELSE ParseFail(path, "invalid_union")
      [] schema.kind = "array" ->
           IF ~IsArr(v) THEN ParseFail(path, "invalid_type")
           ELSE LET items == [i \in 1..Len(v.arr) |->
                                Parse(schema.elem, v.arr[i], SubPath(path, ToString(i - 1)))]
                IN IF \A i \in 1..Len(items) : items[i].ok
                   THEN ParseOk(Arr([i \in 1..Len(items) |-> items[i].value]))
                   ELSE [ok |-> FALSE, value |-> Undefined,
                         issues |-> Flatten([i \in 1..Len(items) |-> items[i].issues])]
      [] OTHER ->
           IF ~IsObj(v) THEN ParseFail(path, "invalid_type")
           ELSE LET shape == schema.shape
                    fields == [i \in 1..Len(shape) |->
                                 Parse(shape[i][2], Get(v, shape[i][1]),
                                       SubPath(path, shape[i][1]))]
                    pairs == [i \in 1..Len(shape) |-> <<shape[i][1], fields[i].value>>]
                IN IF \A i \in 1..Len(fields) : fields[i].ok
                   THEN ParseOk(Obj(SelectSeq(pairs,
                            LAMBDA p : ~IsUndefined(p[2]) \/ HasKey(v, p[1]))))
                   ELSE [ok |-> FALSE, value |-> Undefined,
                         issues |-> Flatten([i \in 1..Len(fields) |-> fields[i].issues])]

---------------------------------------------------------------------------
(* The tool catalog: setupTools registers each tool with its schema.       *)

FilterNames ==
    {"country", "state", "economicBlock", "section", "chapter", "position",
     "subposition", "ncm"}

MetricNames ==
    {"metricFOB", "metricKG", "metricStatistic", "metricFreight", "metricInsurance",
     "metricCIF"}

Flows == {"export", "import"}

periodSchema ==
    zObject(<< <<"from", zStringRegex(schemaPeriodRegex)>>,
               <<"to", zStringRegex(schemaPeriodRegex)>> >>)

\* queryDataSchema with free-text filter and metric names, as the other two
\* query tools have them
queryDataSchemaFreeText ==
    zObject(<< <<"flow", zEnum(Flows)>>,
               <<"monthDetail", zBoolean>>,
               <<"period", periodSchema>>,
               <<"filters", zOptional(zArray(zObject(
                    << <<"filter", zString>>,
                       <<"values", zArray(zNumber)>> >>)))>>,
               <<"details", zArray(zEnum(FilterNames))>>,
               <<"metrics", zArray(zString)>>,
               <<"language", zDefault(zOptional(zString), Str("pt"))>> >>)

queryDataSchema ==
    zObject(<< <<"flow", zEnum(Flows)>>,
               <<"monthDetail", zBoolean>>,
               <<"period", periodSchema>>,
               <<"filters", zOptional(zArray(zObject(
                    << <<"filter", zEnum(FilterNames)>>,
                       <<"values", zArray(zNumber)>> >>)))>>,
               <<"details", zArray(zEnum(FilterNames))>>,
               <<"metrics", zArray(zEnum(MetricNames))>>,
               <<"language", zDefault(zOptional(zString), Str("pt"))>> >>)

queryMunicipalitiesDataSchema ==
    zObject(<< <<"flow", zEnum(Flows)>>,
               <<"period", periodSchema>>,
               <<"monthDetail", zDefault(zOptional(zBoolean), Bool(FALSE))>>,
               <<"filters", zOptional(zArray(zObject(
                    << <<"filter", zString>>,
                       <<"values", zArray(zNumber)>> >>)))>>,
               <<"details", zArray(zString)>>,
               <<"metrics", zArray(zString)>>,
               <<"language", zDefault(zOptional(zString), Str("pt"))>> >>)

\* queryHistoricalDataSchema with details and metrics made optional
queryHistoricalDataSchemaLax ==
    zObject(<< <<"flow", zEnum(Flows)>>,
               <<"period", periodSchema>>,
               <<"monthDetail", zDefault(zOptional(zBoolean), Bool(FALSE))>>,
               <<"filters", zOptional(zArray(zObject(
                    << <<"filter", zString>>,
                       <<"values", zOr(zArray(zNumber), zArray(zString))>> >>)))>>,
               <<"details", zOptional(zArray(zString))>>,
               <<"metrics", zOptional(zArray(zString))>>,
               <<"language", zDefault(zOptional(zString), Str("pt"))>> >>)

queryHistoricalDataSchema ==
    zObject(<< <<"flow", zEnum(Flows)>>,
               <<"period", periodSchema>>,
               <<"monthDetail", zDefault(zOptional(zBoolean), Bool(FALSE))>>,
               <<"filters", zOptional(zArray(zObject(
                    << <<"filter", zString>>,
                       <<"values", zOr(zArray(zNumber), zArray(zString))>> >>)))>>,
               <<"details", zArray(zString)>>,
               <<"metrics", zArray(zString)>>,
               <<"language", zDefault(zOptional(zString), Str("pt"))>> >>)

NoArgTools ==
    {"getLastUpdate", "getAvailableYears", "getAvailableFilters", "getAvailableFields",
     "getAvailableMetrics", "getStates", "getCities"}

QueryTools == {"queryData", "queryMunicipalitiesData", "queryHistoricalData"}

ToolNames ==
    NoArgTools \cup QueryTools \cup
    {"getFilterValues", "getAuxiliaryTable", "getStateDetails", "getCityDetails",
     "getCountries", "getCountryDetails", "getEconomicBlocks", "getHarmonizedSystem",
     "getNBM", "getNBMDetails"}

\* what setupTools registers on the server, by kind: every registration is a
\* this.server.tool(...) call, none a prompt or a root
Registered(kind) == IF kind = "tool" THEN ToolNames ELSE {}

\* the schema given to server.tool(name, schema, handler)
ToolSchema(tool) ==
    CASE tool = "queryData" -> queryDataSchema
      [] tool = "queryMunicipalitiesData" -> queryMunicipalitiesDataSchema
      [] tool = "queryHistoricalData" -> queryHistoricalDataSchema
      [] tool = "getFilterValues" ->
           zObject(<< <<"filter", zString>>, <<"language", zOptional(zString)>> >>)
      [] tool = "getAuxiliaryTable" ->
           zObject(<< <<"table", zString>>,
                      <<"search", zOptional(zString)>>,
                      <<"page", zOptional(zNumber)>>,
                      <<"pageSize", zOptional(zNumber)>> >>)
      [] tool = "getStateDetails" -> zObject(<< <<"ufId", zString>> >>)
      [] tool = "getCityDetails" -> zObject(<< <<"cityId", zString>> >>)
      [] tool = "getCountries" -> zObject(<< <<"search", zOptional(zString)>> >>)
      [] tool = "getCountryDetails" -> zObject(<< <<"countryId", zString>> >>)
      [] tool = "getEconomicBlocks" ->
           zObject(<< <<"language", zDefault(zOptional(zString), Str("pt"))>>,
                      <<"add", zOptional(zString)>>,
                      <<"search", zOptional(zString)>> >>)
      [] tool = "getHarmonizedSystem" ->
           zObject(<< <<"language", zDefault(zOptional(zString), Str("pt"))>>,
                      <<"page", zDefault(zOptional(zNumber), Num(1))>>,
                      <<"perPage", zDefault(zOptional(zNumber), Num(10))>>,
                      <<"add", zOptional(zString)>> >>)
      [] tool = "getNBM" ->
           zObject(<< <<"language", zDefault(zOptional(zString), Str("pt"))>>,
                      <<"page", zDefault(zOptional(zNumber), Num(1))>>,
                      <<"perPage", zDefault(zOptional(zNumber), Num(5))>>,
                      <<"add", zOptional(zString)>>,
                      <<"search", zOptional(zString)>> >>)
      [] tool = "getNBMDetails" -> zObject(<< <<"coNbm", zString>> >>)
      [] OTHER -> zObject(<<>>)

---------------------------------------------------------------------------
(* Errors. A thrown value is a record; apiError is the property that       *)
(* handleError adds to an HTTP error.                                      *)

ErrorOf(name, message) ==
    [name |-> name, message |-> message, isAxiosError |-> FALSE,
     response |-> Undefined, url |-> Undefined, apiError |-> Undefined, issues |-> <<>>]

\* the error the HTTP library rejects with: response is undefined when no
\* response arrived; url is error.config.url, the endpoint as it was requested
AxiosError(message, response, url) ==
    [name |-> "AxiosError", message |-> message, isAxiosError |-> TRUE,
     response |-> response, url |-> Str(url), apiError |-> Undefined, issues |-> <<>>]

\* the rejection of an invocation whose arguments fail the tool's schema
ValidationError(issues) ==
    [name |-> "ValidationError", message |-> "Invalid arguments", isAxiosError |-> FALSE,
     response |-> Undefined, url |-> Undefined, apiError |-> Undefined, issues |-> issues]

TypeError == ErrorOf("TypeError", "Cannot read properties of undefined")

Threw(e) == [threw |-> TRUE, error |-> e]
Returned(v) == [threw |-> FALSE, value |-> v]

\* value.key, which throws a TypeError on null and undefined
Prop(v, k) == IF IsNullish(v) THEN Threw(TypeError) ELSE Returned(Get(v, k))

\* value[0]
First(v) ==
    CASE IsNullish(v) -> Threw(TypeError)
      [] IsArr(v) -> Returned(IF Len(v.arr) > 0 THEN v.arr[1] ELSE Undefined)
      [] IsStr(v) -> Returned(IF Len(v.str) > 0 THEN Str(CharAt(v.str, 1)) ELSE Undefined)
      [] OTHER -> Returned(Get(v, "0"))

---------------------------------------------------------------------------
(* ComexstatClient: the HTTP client configuration and get / post.          *)

DefaultBaseUrl == "https://api-comexstat.mdic.gov.br"

TimeoutMs == 30000

MaxRedirects == 5

\* axios.create({...}) in the constructor
ClientConfig ==
    [baseURL |-> DefaultBaseUrl,
     timeout |-> TimeoutMs,
     headers |-> Obj(<< <<"Content-Type", Str("application/json")>>,
                        <<"Accept", Str("application/json")>> >>),
     rejectUnauthorized |-> FALSE,
     maxRedirects |-> MaxRedirects]

\* validateStatus as the HTTP library has it by default: 2xx only
validateStatus2xx(status) == status >= 200 /\ status < 300

\* validateStatus: (status) => status < 400
validateStatus(status) == status < 400

\* the request that get hands to the HTTP library: params only when truthy
getRequest(endpoint, params) ==
    [method |-> "GET", url |-> endpoint, data |-> Undefined,
     params |-> IF Truthy(params) THEN params ELSE Undefined]

\* the request that post hands to the HTTP library
postRequest(endpoint, data, params) ==
    [method |-> "POST", url |-> endpoint, data |-> data,
     params |-> IF Truthy(params) THEN params ELSE Undefined]

RECURSIVE SplitAt(_, _)
\* the pieces of s between the occurrences of the character sep
SplitAt(s, sep) ==
    IF \A i \in 1..Len(s) : CharAt(s, i) # sep THEN <<s>>
    ELSE LET i == CHOOSE j \in 1..Len(s) :
                      /\ CharAt(s, j) = sep
                      /\ \A h \in 1..(j - 1) : CharAt(s, h) # sep
         IN <<SubSeq(s, 1, i - 1)>> \o SplitAt(SubSeq(s, i + 1, Len(s)), sep)

RECURSIVE RemoveDotSegments(_, _)
\* URL parsing of the request target: a ".." segment removes the segment
\* before it, a "." segment is dropped, and either of them in last place
\* leaves an empty last segment
RemoveDotSegments(segments, path) ==
    IF segments = <<>> THEN path
    ELSE LET segment == Head(segments)
             last == Len(segments) = 1
             shortened == IF path = <<>> THEN path ELSE SubSeq(path, 1, Len(path) - 1)
         IN CASE segment = ".." ->
                   RemoveDotSegments(Tail(segments),
                                     IF last THEN Append(shortened, "") ELSE shortened)
              [] segment = "." ->
                   RemoveDotSegments(Tail(segments),
                                     IF last THEN Append(path, "") ELSE path)
              [] OTHER -> RemoveDotSegments(Tail(segments), Append(path, segment))

\* the segments of the path the request addresses under the base URL
PathSegments(req) == RemoveDotSegments(Tail(SplitAt(req.url, "/")), <<>>)

\* the path the request addresses
Pathname(req) == "/" \o JoinStrings(PathSegments(req), "/")

\* the query string the HTTP library sends: null and undefined params are skipped
EffectiveQuery(req) ==
    IF IsObj(req.params)
    THEN SelectSeq(req.params.obj, LAMBDA p : ~IsNullish(p[2]))
    ELSE <<>>

\* how the HTTP library settles a request, given what the network did
Settle(req, net) ==
    CASE net.kind = "response" ->
           IF validateStatus(net.status)
           THEN Returned(Obj(<< <<"status", Num(net.status)>>, <<"data", net.data>> >>))
           ELSE Threw(AxiosError("Request failed with status code " \o ToString(net.status),
                                 Obj(<< <<"status", Num(net.status)>>,
                                        <<"data", net.data>> >>),
                                 req.url))
      [] net.kind = "network" -> Threw(AxiosError("Network Error", Undefined, req.url))
      [] net.kind = "timeout" ->
           Threw(AxiosError("timeout of " \o ToString(TimeoutMs) \o "ms exceeded",
                            Undefined, req.url))
      [] OTHER -> Threw(ErrorOf("Error", "unexpected failure"))

\* obj?.key
OptProp(v, k) == IF IsNullish(v) THEN Undefined ELSE Get(v, k)

\* handleError taking the message from the HTTP library's error alone
handleErrorOwnMessage(error) ==
    IF error.isAxiosError
    THEN LET status == OptProp(error.response, "status")
             message == Str(error.message)
         IN [log |-> <<Str("API Error (" \o ToStr(status) \o "): " \o ToStr(message))>>,
             error |-> [error EXCEPT !.apiError =
                            Obj(<< <<"status", status>>,
                                   <<"message", message>>,
                                   <<"endpoint", error.url>> >>)]]
    ELSE [log |-> <<Str("Non-Axios error:"), Str(error.message)>>, error |-> error]

\* handleError: what is written to console.error, and the error afterwards
handleError(error) ==
    IF error.isAxiosError
    THEN LET status == OptProp(error.response, "status")
             data == OptProp(error.response, "data")
             message == OrElse(OptProp(data, "message"), Str(error.message))
         IN [log |-> <<Str("API Error (" \o ToStr(status) \o "): " \o ToStr(message))>>,
             error |-> [error EXCEPT !.apiError =
                            Obj(<< <<"status", status>>,
                                   <<"message", message>>,
                                   <<"endpoint", error.url>> >>)]]
    ELSE [log |-> <<Str("Non-Axios error:"), Str(error.message)>>, error |-> error]

\* afterRequest with a catch block that logs and then returns instead of
\* rethrowing
afterRequestSwallow(settled) ==
    IF settled.threw
    THEN LET handled == handleError(settled.error)
         IN [result |-> Returned(Undefined),
             console |-> <<handled.log>>,
             events |-> <<"catch", "log", "return">>]
    ELSE [result |-> Returned(Get(settled.value, "data")),
          console |-> <<>>,
          events |-> <<"return">>]

\* the rest of get / post once the HTTP library has settled: return
\* response.data, or log through handleError and rethrow. events is the order
\* in which the steps happen.
afterRequest(settled) ==
    IF settled.threw
    THEN LET handled == handleError(settled.error)
         IN [result |-> Threw(handled.error),
             console |-> <<handled.log>>,
             events |-> <<"catch", "log", "throw">>]
    ELSE [result |-> Returned(Get(settled.value, "data")),
          console |-> <<>>,
          events |-> <<"return">>]

---------------------------------------------------------------------------
(* The client's API methods, up to the request each one issues. a is the   *)
(* object of the method's arguments by parameter name; the result is the   *)
(* request, or the error thrown before any request.                        *)

Issue(req) == [threw |-> FALSE, req |-> req]

LanguageParam(language) == Obj(<< <<"language", language>> >>)

getLastUpdate(a) == Issue(getRequest("/general/dates/updated", Undefined))

getAvailableYears(a) == Issue(getRequest("/general/dates/years", Undefined))

\* getAvailableFilters without the default value of its language parameter
getAvailableFiltersNoDefault(a) ==
    Issue(getRequest("/general/filters", LanguageParam(Get(a, "language"))))

getAvailableFilters(a) ==
    Issue(getRequest("/general/filters",
                     LanguageParam(DefaultParam(Get(a, "language"), Str("pt")))))

getFilterValues(a) ==
    Issue(getRequest("/general/filters/" \o ToStr(Get(a, "filter")),
                     LanguageParam(DefaultParam(Get(a, "language"), Str("pt")))))

getAvailableFields(a) ==
    Issue(getRequest("/general/details",
                     LanguageParam(DefaultParam(Get(a, "language"), Str("pt")))))

getAvailableMetrics(a) ==
    Issue(getRequest("/general/metrics",
                     LanguageParam(DefaultParam(Get(a, "language"), Str("pt")))))

PeriodError ==
    ErrorOf("Error", "Period dates must be in YYYY-MM format (e.g., \"2023-01\")")

\* PeriodCheck testing period.from alone
PeriodCheckFromOnly(period) ==
    IF IsNullish(period) THEN Threw(TypeError)
    ELSE IF ~RegexTest(dateFormatRegex, ToStr(Get(period, "from")))
    THEN Threw(PeriodError)
    ELSE Returned(period)

\* PeriodCheck that also wants a calendar month, 01 to 12, in each bound
PeriodCheckCalendar(period) ==
    LET Months == {"01", "02", "03", "04", "05", "06", "07", "08", "09", "10", "11", "12"}
        from == ToStr(Get(period, "from"))
        to == ToStr(Get(period, "to"))
    IN IF IsNullish(period) THEN Threw(TypeError)
       ELSE IF \/ ~RegexTest(dateFormatRegex, from)
               \/ ~RegexTest(dateFormatRegex, to)
       THEN Threw(PeriodError)
       ELSE IF SubSeq(from, 6, 7) \notin Months \/ SubSeq(to, 6, 7) \notin Months
       THEN Threw(PeriodError)
       ELSE Returned(period)

\* the pre-flight check of the three query methods: period.from and
\* period.to are read (a TypeError when period is null or undefined) and
\* tested against dateFormatRegex
\* PeriodCheck testing each bound against ^\d{2}-\d{2}$
PeriodCheckShortYear(period) ==
    IF IsNullish(period) THEN Threw(TypeError)
    ELSE IF \/ ~RegexTest(<<"d", "d", "-", "d", "d">>, ToStr(Get(period, "from")))
            \/ ~RegexTest(<<"d", "d", "-", "d", "d">>, ToStr(Get(period, "to")))
    THEN Threw(PeriodError)
    ELSE Returned(period)

PeriodCheck(period) ==
    IF IsNullish(period) THEN Threw(TypeError)
    ELSE IF \/ ~RegexTest(dateFormatRegex, ToStr(Get(period, "from")))
            \/ ~RegexTest(dateFormatRegex, ToStr(Get(period, "to")))
    THEN Threw(PeriodError)
    ELSE Returned(period)

QueryBody(a, monthDetail, filters) ==
    Obj(<< <<"flow", Get(a, "flow")>>,
           <<"monthDetail", monthDetail>>,
           <<"period", Get(a, "period")>>,
           <<"filters", filters>>,
           <<"details", Get(a, "details")>>,
           <<"metrics", Get(a, "metrics")>> >>)

queryData(a) ==
    LET checked == PeriodCheck(Get(a, "period"))
    IN IF checked.threw THEN checked
       ELSE Issue(postRequest("/general",
                    QueryBody(a, Get(a, "monthDetail"),
                              DefaultParam(Get(a, "filters"), Arr(<<>>))),
                    LanguageParam(DefaultParam(Get(a, "language"), Str("pt")))))

\* queryMunicipalitiesData with monthDetail fixed to false in the body
queryMunicipalitiesDataNoMonthDetail(a) ==
    LET checked == PeriodCheck(Get(a, "period"))
    IN IF checked.threw THEN checked
       ELSE Issue(postRequest("/cities",
                    QueryBody(a, Bool(FALSE),
                              DefaultParam(Get(a, "filters"), Arr(<<>>))),
                    LanguageParam(DefaultParam(Get(a, "language"), Str("pt")))))

queryMunicipalitiesData(a) ==
    LET checked == PeriodCheck(Get(a, "period"))
    IN IF checked.threw THEN checked
       ELSE Issue(postRequest("/cities",
                    QueryBody(a, DefaultParam(Get(a, "monthDetail"), Bool(FALSE)),
                              DefaultParam(Get(a, "filters"), Arr(<<>>))),
                    LanguageParam(DefaultParam(Get(a, "language"), Str("pt")))))

queryHistoricalData(a) ==
    LET checked == PeriodCheck(Get(a, "period"))
    IN IF checked.threw THEN checked
       ELSE Issue(postRequest("/historical-data",
                    QueryBody(a, DefaultParam(Get(a, "monthDetail"), Bool(FALSE)),
                              DefaultParam(Get(a, "filters"), Arr(<<>>))),
                    LanguageParam(DefaultParam(Get(a, "language"), Str("pt")))))

DefaultPage == 1

DefaultPageSize == 100

\* getAuxiliaryTable defaulting with ||, which also replaces a supplied 0
getAuxiliaryTableFalsy(a) ==
    Issue(getRequest("/auxiliary/" \o ToStr(Get(a, "table")),
                     Obj(<< <<"search", Get(a, "search")>>,
                            <<"page", OrElse(Get(a, "page"), Num(DefaultPage))>>,
                            <<"pageSize",
                              OrElse(Get(a, "pageSize"), Num(DefaultPageSize))>> >>)))

getAuxiliaryTable(a) ==
    Issue(getRequest("/auxiliary/" \o ToStr(Get(a, "table")),
                     Obj(<< <<"search", Get(a, "search")>>,
                            <<"page", DefaultParam(Get(a, "page"), Num(DefaultPage))>>,
                            <<"pageSize",
                              DefaultParam(Get(a, "pageSize"), Num(DefaultPageSize))>> >>)))

getStates(a) == Issue(getRequest("/tables/uf", Undefined))

getStateDetails(a) == Issue(getRequest("/tables/uf/" \o ToStr(Get(a, "ufId")), Undefined))

getCities(a) == Issue(getRequest("/tables/cities", Undefined))

\* getCityDetails sending the identifier as a query parameter of /tables/cities
getCityDetailsAsQuery(a) ==
    Issue(getRequest("/tables/cities", Obj(<< <<"cityId", Get(a, "cityId")>> >>)))

getCityDetails(a) ==
    Issue(getRequest("/tables/cities/" \o ToStr(Get(a, "cityId")), Undefined))

\* getCountries sending a search parameter always, empty when none was given
getCountriesSearchAlways(a) ==
    Issue(getRequest("/tables/countries",
                     Obj(<< <<"search", OrElse(Get(a, "search"), Str(""))>> >>)))

getCountries(a) ==
    Issue(getRequest("/tables/countries",
                     IF Truthy(Get(a, "search"))
                     THEN Obj(<< <<"search", Get(a, "search")>> >>)
                     ELSE Undefined))

getCountryDetails(a) ==
    Issue(getRequest("/tables/countries/" \o ToStr(Get(a, "countryId")), Undefined))

getEconomicBlocks(a) == Issue(getRequest("/tables/economic-blocks", Get(a, "options")))

getHarmonizedSystem(a) == Issue(getRequest("/tables/hs", Get(a, "options")))

getNBM(a) == Issue(getRequest("/tables/nbm", Get(a, "options")))

getNBMDetails(a) == Issue(getRequest("/tables/nbm/" \o ToStr(Get(a, "coNbm")), Undefined))

\* ClientCall with two handlers crossed: the getStates tool calls getCities
\* and the getCities tool calls getStates
ClientCallCrossed(op, a) ==
    CASE op = "getStates" -> getCities(a)
      [] op = "getCities" -> getStates(a)
      [] op = "getLastUpdate" -> getLastUpdate(a)
      [] op = "getAvailableYears" -> getAvailableYears(a)
      [] op = "getAvailableFilters" -> getAvailableFilters(a)
      [] op = "getFilterValues" -> getFilterValues(a)
      [] op = "getAvailableFields" -> getAvailableFields(a)
      [] op = "getAvailableMetrics" -> getAvailableMetrics(a)
      [] op = "queryData" -> queryData(a)
      [] op = "queryMunicipalitiesData" -> queryMunicipalitiesData(a)
      [] op = "queryHistoricalData" -> queryHistoricalData(a)
      [] op = "getAuxiliaryTable" -> getAuxiliaryTable(a)
      [] op = "getStateDetails" -> getStateDetails(a)
      [] op = "getCityDetails" -> getCityDetails(a)
      [] op = "getCountries" -> getCountries(a)
      [] op = "getCountryDetails" -> getCountryDetails(a)
      [] op = "getEconomicBlocks" -> getEconomicBlocks(a)
      [] op = "getHarmonizedSystem" -> getHarmonizedSystem(a)
      [] op = "getNBM" -> getNBM(a)
      [] OTHER -> getNBMDetails(a)

\* the client method named op, called with the arguments a
ClientCall(op, a) ==
    CASE op = "getLastUpdate" -> getLastUpdate(a)
      [] op = "getAvailableYears" -> getAvailableYears(a)
      [] op = "getAvailableFilters" -> getAvailableFilters(a)
      [] op = "getFilterValues" -> getFilterValues(a)
      [] op = "getAvailableFields" -> getAvailableFields(a)
      [] op = "getAvailableMetrics" -> getAvailableMetrics(a)
      [] op = "queryData" -> queryData(a)
      [] op = "queryMunicipalitiesData" -> queryMunicipalitiesData(a)
      [] op = "queryHistoricalData" -> queryHistoricalData(a)
      [] op = "getAuxiliaryTable" -> getAuxiliaryTable(a)
      [] op = "getStates" -> getStates(a)
      [] op = "getStateDetails" -> getStateDetails(a)
      [] op = "getCities" -> getCities(a)
      [] op = "getCityDetails" -> getCityDetails(a)
      [] op = "getCountries" -> getCountries(a)
      [] op = "getCountryDetails" -> getCountryDetails(a)
      [] op = "getEconomicBlocks" -> getEconomicBlocks(a)
      [] op = "getHarmonizedSystem" -> getHarmonizedSystem(a)
      [] op = "getNBM" -> getNBM(a)
      [] OTHER -> getNBMDetails(a)

---------------------------------------------------------------------------
(* The rest of each API method once get / post has returned the response   *)
(* body: the value the method returns, or the TypeError of reading a       *)
(* property of null or undefined.                                          *)

\* response.data.<key>
DataProp(body, key) ==
    LET data == Prop(body, "data")
    IN IF data.threw THEN data ELSE Prop(data.value, key)

\* getLastUpdate: response.data.updated
getLastUpdateResult(body) == DataProp(body, "updated")

\* getAvailableYears: response.data
getAvailableYearsResult(body) == Prop(body, "data")

\* listResult without the unwrapping of list: response.data
listResultWhole(body) == Prop(body, "data")

\* getAvailableFilters, getAvailableFields, getAvailableMetrics: response.data.list
listResult(body) == DataProp(body, "list")

\* getFilterValuesResult without the unwrapping: response.data
getFilterValuesResultWhole(body) == Prop(body, "data")

\* getFilterValues: response.data[0]
getFilterValuesResult(body) ==
    LET data == Prop(body, "data")
    IN IF data.threw THEN data ELSE First(data.value)

ListOps == {"getAvailableFilters", "getAvailableFields", "getAvailableMetrics"}

ClientResult(op, body) ==
    CASE op = "getLastUpdate" -> getLastUpdateResult(body)
      [] op = "getAvailableYears" -> getAvailableYearsResult(body)
      [] op \in ListOps -> listResult(body)
      [] op = "getFilterValues" -> getFilterValuesResult(body)
      [] OTHER -> Returned(body)

---------------------------------------------------------------------------
(* The tool handlers: each passes the validated arguments to one client    *)
(* method and wraps what it returns as the tool's content.                 *)

\* QueryHandlerArgs with monthDetail left out of the positional arguments, so
\* that every later argument lands one parameter early
QueryHandlerArgsShifted(v) ==
    Obj(<< <<"flow", Get(v, "flow")>>,
           <<"period", Get(v, "period")>>,
           <<"monthDetail", OrElse(Get(v, "filters"), Arr(<<>>))>>,
           <<"filters", Get(v, "details")>>,
           <<"details", Get(v, "metrics")>>,
           <<"metrics", Get(v, "language")>>,
           <<"language", Undefined>> >>)

QueryHandlerArgs(v) ==
    Obj(<< <<"flow", Get(v, "flow")>>,
           <<"period", Get(v, "period")>>,
           <<"monthDetail", Get(v, "monthDetail")>>,
           <<"filters", OrElse(Get(v, "filters"), Arr(<<>>))>>,
           <<"details", Get(v, "details")>>,
           <<"metrics", Get(v, "metrics")>>,
           <<"language", Get(v, "language")>> >>)

OptionsTools == {"getEconomicBlocks", "getHarmonizedSystem", "getNBM"}

\* OptionKeys without the paging keys: the handlers pass language, add and
\* search alone
OptionKeysNoPaging(tool) == <<"language", "add", "search">>

\* the keys of the options object literal the handler builds
OptionKeys(tool) ==
    CASE tool = "getEconomicBlocks" -> <<"language", "add", "search">>
      [] tool = "getHarmonizedSystem" -> <<"language", "page", "perPage", "add">>
      [] OTHER -> <<"language", "page", "perPage", "add", "search">>

\* the arguments the handler of tool passes to the client, by parameter name
HandlerArgs(tool, v) ==
    CASE tool \in QueryTools -> QueryHandlerArgs(v)
      [] tool = "getFilterValues" ->
           Obj(<< <<"filter", Get(v, "filter")>>, <<"language", Get(v, "language")>> >>)
      [] tool = "getAuxiliaryTable" ->
           Obj(<< <<"table", Get(v, "table")>>,
                  <<"search", Get(v, "search")>>,
                  <<"page", Get(v, "page")>>,
                  <<"pageSize", Get(v, "pageSize")>> >>)
      [] tool = "getStateDetails" -> Obj(<< <<"ufId", Get(v, "ufId")>> >>)
      [] tool = "getCityDetails" -> Obj(<< <<"cityId", Get(v, "cityId")>> >>)
      [] tool = "getCountries" -> Obj(<< <<"search", Get(v, "search")>> >>)
      [] tool = "getCountryDetails" -> Obj(<< <<"countryId", Get(v, "countryId")>> >>)
      [] tool \in OptionsTools ->
           Obj(<< <<"options",
                    Obj([i \in 1..Len(OptionKeys(tool)) |->
                           <<OptionKeys(tool)[i], Get(v, OptionKeys(tool)[i])>>])>> >>)
      [] tool = "getNBMDetails" -> Obj(<< <<"coNbm", Get(v, "coNbm")>> >>)
      [] OTHER -> Obj(<<>>)

\* { content: [{ type: "text", text }] }: getLastUpdate passes the client's
\* value as the text, every other handler passes JSON.stringify of it
HandlerContent(tool, value) ==
    Obj(<< <<"content",
             Arr(<< Obj(<< <<"type", Str("text")>>,
                           <<"text", IF tool = "getLastUpdate" THEN value
                                     ELSE JSONstringify(value)>> >>) >>)>> >>)

---------------------------------------------------------------------------
(* One invocation. pc is where it stands: idle, awaiting (its HTTP request *)
(* is in flight) or done. reqs are the HTTP requests issued on its behalf, *)
(* console what it wrote to console.error, events the order of its steps,  *)
(* result what the client method returned or threw, outcome what the tool  *)
(* invocation returned or failed with.                                     *)

Pending == [pending |-> TRUE]

IsThrew(r) == "threw" \in DOMAIN r /\ r.threw
IsReturned(r) == "threw" \in DOMAIN r /\ ~r.threw

IdleCall ==
    [pc |-> "idle", via |-> "none", op |-> "none", args |-> Undefined,
     parsed |-> Undefined, reqs |-> <<>>, net |-> [kind |-> "none"],
     console |-> <<>>, events |-> <<>>, result |-> Pending, outcome |-> Pending]

\* StartClient answering from a memo: a request equal to one that another
\* invocation has already been answered for is not issued again
StartClientMemo(call, op, a) ==
    LET started == ClientCall(op, a)
        hits == {d \in DOMAIN calls :
                   /\ calls[d].pc = "done"
                   /\ calls[d].reqs = <<started.req>>
                   /\ IsReturned(calls[d].result)}
    IN IF started.threw
       THEN [call EXCEPT !.pc = "done", !.op = op,
                         !.events = @ \o <<"client", "throw">>,
                         !.result = Threw(started.error)]
       ELSE IF hits # {}
       THEN [call EXCEPT !.pc = "done", !.op = op,
                         !.events = @ \o <<"client", "memo">>,
                         !.result = calls[CHOOSE d \in hits : TRUE].result]
       ELSE [call EXCEPT !.pc = "awaiting", !.op = op,
                         !.events = @ \o <<"client", "request">>,
                         !.reqs = @ \o <<started.req>>]

\* a client method called with the arguments a, up to its await
StartClient(call, op, a) ==
    LET started == ClientCall(op, a)
    IN IF started.threw
       THEN [call EXCEPT !.pc = "done", !.op = op,
                         !.events = @ \o <<"client", "throw">>,
                         !.result = Threw(started.error)]
       ELSE [call EXCEPT !.pc = "awaiting", !.op = op,
                         !.events = @ \o <<"client", "request">>,
                         !.reqs = @ \o <<started.req>>]

\* a client method called directly, without the tool registry
InvokeClient(op, a) ==
    StartClient([IdleCall EXCEPT !.via = "client", !.args = a], op, a)

\* InvokeTool with the schema's verdict ignored: the handler runs on the raw
\* arguments
InvokeToolUnchecked(tool, rawArgs) ==
    LET started == StartClient([IdleCall EXCEPT !.via = "tool", !.op = tool,
                                                !.args = rawArgs, !.parsed = rawArgs,
                                                !.events = <<"validate", "handler">>],
                               tool, HandlerArgs(tool, rawArgs))
    IN IF started.pc = "done"
       THEN [started EXCEPT !.outcome = started.result]
       ELSE started

\* a tool invocation: the arguments are parsed against the tool's schema,
\* and only the parsed value reaches the handler
InvokeTool(tool, rawArgs) ==
    LET parsed == Parse(ToolSchema(tool), rawArgs, "")
        call == [IdleCall EXCEPT !.via = "tool", !.op = tool, !.args = rawArgs,
                                 !.events = <<"validate">>]
    IN IF ~parsed.ok
       THEN [call EXCEPT !.pc = "done",
                         !.events = @ \o <<"reject">>,
                         !.outcome = Threw(ValidationError(parsed.issues))]
       ELSE LET started == StartClient([call EXCEPT !.parsed = parsed.value,
                                                    !.events = @ \o <<"handler">>],
                                       tool, HandlerArgs(tool, parsed.value))
            IN IF started.pc = "done"
               THEN [started EXCEPT !.outcome = started.result]
               ELSE started

\* Resume with one retry: a request that failed is sent once more before the
\* failure is reported
ResumeRetry(call, net) ==
    LET settled == Settle(call.reqs[Len(call.reqs)], net)
        after == afterRequest(settled)
        result == IF after.result.threw THEN after.result
                  ELSE ClientResult(call.op, after.result.value)
    IN IF settled.threw /\ Len(call.reqs) < 2
       THEN [call EXCEPT !.net = net,
                         !.events = @ \o <<"settle", "catch", "request">>,
                         !.reqs = @ \o <<call.reqs[Len(call.reqs)]>>]
       ELSE [call EXCEPT !.pc = "done",
                         !.net = net,
                         !.console = @ \o after.console,
                         !.events = @ \o <<"settle">> \o after.events,
                         !.result = result,
                         !.outcome = IF call.via # "tool" THEN Pending
                                     ELSE IF result.threw THEN result
                                     ELSE Returned(HandlerContent(call.op, result.value))]

\* Resume with a handler that absorbs the client's error and answers with a
\* content item carrying the error's message
ResumeAbsorb(call, net) ==
    LET after == afterRequest(Settle(call.reqs[Len(call.reqs)], net))
        result == IF after.result.threw THEN after.result
                  ELSE ClientResult(call.op, after.result.value)
    IN [call EXCEPT !.pc = "done",
                    !.net = net,
                    !.console = @ \o after.console,
                    !.events = @ \o <<"settle">> \o after.events,
                    !.result = result,
                    !.outcome = IF call.via # "tool" THEN Pending
                                ELSE IF result.threw
                                THEN Returned(HandlerContent("getLastUpdate",
                                                             Str(result.error.message)))
                                ELSE Returned(HandlerContent(call.op, result.value))]

\* Resume reading the response from a slot shared by all invocations: the
\* response of an invocation that has already been answered is used in place
\* of the invocation's own
ResumeCrossed(call, net) ==
    LET others == {d \in DOMAIN calls : calls[d].pc = "done" /\ calls[d].net.kind # "none"}
        used == IF others # {} THEN calls[CHOOSE d \in others : TRUE].net ELSE net
        after == afterRequest(Settle(call.reqs[Len(call.reqs)], used))
        result == IF after.result.threw THEN after.result
                  ELSE ClientResult(call.op, after.result.value)
    IN [call EXCEPT !.pc = "done",
                    !.net = net,
                    !.console = @ \o after.console,
                    !.events = @ \o <<"settle">> \o after.events,
                    !.result = result,
                    !.outcome = IF call.via # "tool" THEN Pending
                                ELSE IF result.threw THEN result
                                ELSE Returned(HandlerContent(call.op, result.value))]

\* Resume that goes back to waiting whenever the request fails, so that the
\* invocation ends only on a successful response
ResumeWaitAgain(call, net) ==
    LET settled == Settle(call.reqs[Len(call.reqs)], net)
        after == afterRequest(settled)
        result == IF after.result.threw THEN after.result
                  ELSE ClientResult(call.op, after.result.value)
    IN IF settled.threw
       THEN [call EXCEPT !.net = net]
       ELSE [call EXCEPT !.pc = "done",
                         !.net = net,
                         !.console = @ \o after.console,
                         !.events = @ \o <<"settle">> \o after.events,
                         !.result = result,
                         !.outcome = IF call.via # "tool" THEN Pending
                                     ELSE IF result.threw THEN result
                                     ELSE Returned(HandlerContent(call.op, result.value))]

\* the invocation resumes when the HTTP library settles its request
Resume(call, net) ==
    LET after == afterRequest(Settle(call.reqs[Len(call.reqs)], net))
        result == IF after.result.threw THEN after.result
                  ELSE ClientResult(call.op, after.result.value)
    IN [call EXCEPT !.pc = "done",
                    !.net = net,
                    !.console = @ \o after.console,
                    !.events = @ \o <<"settle">> \o after.events,
                    !.result = result,
                    !.outcome = IF call.via # "tool" THEN Pending
                                ELSE IF result.threw THEN result
                                ELSE Returned(HandlerContent(call.op, result.value))]

---------------------------------------------------------------------------
(* The arguments callers send. Each set is a valid base invocation and the *)
(* invocations that differ from it in one field (a value replaced or the   *)
(* field left out), the two period bounds varying together.                *)

\* o with property k set to v
With(o, k, v) ==
    IF HasKey(o, k)
    THEN Obj([i \in 1..Len(o.obj) |-> IF o.obj[i][1] = k THEN <<k, v>> ELSE o.obj[i]])
    ELSE Obj(Append(o.obj, <<k, v>>))

\* o without property k
Without(o, k) == Obj(SelectSeq(o.obj, LAMBDA p : p[1] # k))

Strs(seq) == Arr([i \in 1..Len(seq) |-> Str(seq[i])])
Nums(seq) == Arr([i \in 1..Len(seq) |-> Num(seq[i])])

Period(from, to) == Obj(<< <<"from", from>>, <<"to", to>> >>)

FilterClause(name, values) == Obj(<< <<"filter", Str(name)>>, <<"values", values>> >>)

\* the README's example of use
ReadmeExample ==
    Obj(<< <<"flow", Str("export")>>,
           <<"period", Period(Str("2023-01"), Str("2023-12"))>>,
           <<"monthDetail", Bool(FALSE)>>,
           <<"filters", Arr(<<FilterClause("country", Nums(<<105>>))>>)>>,
           <<"details", Strs(<<"country", "month">>)>>,
           <<"metrics", Strs(<<"metricFOB", "metricKG">>)>> >>)

\* the example with detail fields the queryData schema lists
QueryBase == With(ReadmeExample, "details", Strs(<<"country", "state">>))

PeriodBounds ==
    {Str("2023-01"), Str("2023-12"), Str("2023-13"), Str("2023-1"), Str("23-01"),
     Str("2023-011"), Str(""), Num(202301), Arr(<<Str("2023-01")>>), Undefined}

Periods ==
    {Period(from, to) : from, to \in {Str("2023-01"), Str("2023-12"), Str("2023-13")}}
    \cup {Period(b, Str("2023-12")) : b \in PeriodBounds}
    \cup {Period(Str("2023-01"), b) : b \in PeriodBounds}
    \cup {Obj(<< <<"from", Str("2023-01")>> >>), Str("2023-01"), Null,
          With(Period(Str("2023-01"), Str("2023-12")), "tz", Str("UTC"))}

FlowValues == {Str("export"), Str("import"), Str("reexport"), Str("EXPORT"), Num(1)}

MonthDetailValues == {Bool(TRUE), Bool(FALSE), Str("false"), Num(0)}

FiltersValues ==
    {Arr(<<>>),
     Arr(<<FilterClause("country", Nums(<<105, 107>>)), FilterClause("state", Nums(<<26>>))>>),
     Arr(<<FilterClause("ncm", Nums(<<>>))>>),
     Arr(<<FilterClause("city", Nums(<<5300050>>))>>),
     Arr(<<FilterClause("country", Nums(<<105>>)), FilterClause("month", Nums(<<1>>))>>),
     Arr(<<FilterClause("country", Strs(<<"105">>))>>),
     Arr(<<FilterClause("country", Arr(<<Num(105), Str("107")>>))>>),
     Arr(<<Obj(<< <<"filter", Str("country")>> >>)>>),
     FilterClause("country", Nums(<<105>>))}

DetailsValues ==
    {Strs(<<"country", "month">>), Strs(<<"ncm">>), Strs(<<>>), Strs(<<"city">>),
     Str("country"), Arr(<<Num(1)>>)}

MetricsValues ==
    {Strs(<<"metricFOB">>), Strs(<<"metricCIF", "metricFreight", "metricInsurance">>),
     Strs(<<"metricFOB", "metricTotal">>), Strs(<<"fob">>), Str("metricFOB"), Strs(<<>>)}

LanguageValues == {Str("en"), Str("pt"), Num(1), Null}

QueryFieldNames ==
    {"flow", "period", "monthDetail", "filters", "details", "metrics", "language"}

FieldValues(field) ==
    CASE field = "flow" -> FlowValues
      [] field = "period" -> Periods
      [] field = "monthDetail" -> MonthDetailValues
      [] field = "filters" -> FiltersValues
      [] field = "details" -> DetailsValues
      [] field = "metrics" -> MetricsValues
      [] OTHER -> LanguageValues

\* base, and base with one field replaced or left out
Variations(base) ==
    {base}
    \cup UNION {{With(base, f, v) : v \in FieldValues(f)} : f \in QueryFieldNames}
    \cup {Without(base, f) : f \in QueryFieldNames}

QueryArgs == Variations(QueryBase) \cup {ReadmeExample}

One(key, v) == Obj(<< <<key, v>> >>)
Two(k1, v1, k2, v2) == Obj(<< <<k1, v1>>, <<k2, v2>> >>)

Ids == {Str("26"), Str("../cities"), Str("a/b"), Str(""), Num(26)}

ToolArgs(tool) ==
    CASE tool \in QueryTools -> QueryArgs
      [] tool = "getFilterValues" ->
           {One("filter", Str("country")), One("filter", Str("../details")),
            One("filter", Num(1)), Obj(<<>>), One("language", Str("en")),
            Two("filter", Str("ncm"), "language", Str("en")),
            Two("filter", Str("ncm"), "language", Num(1))}
      [] tool = "getAuxiliaryTable" ->
           {One("table", Str("countries")), Obj(<<>>), One("page", Num(2)),
            One("table", Str("../tables/uf")),
            Two("table", Str("countries"), "page", Num(2)),
            Two("table", Str("countries"), "page", Num(0)),
            Two("table", Str("countries"), "pageSize", Num(50)),
            Two("table", Str("countries"), "pageSize", Num(0)),
            Two("table", Str("countries"), "search", Str("bra")),
            Two("table", Str("countries"), "page", Str("2")),
            With(Two("table", Str("ncm"), "page", Num(3)), "pageSize", Num(10))}
      [] tool = "getStateDetails" -> {One("ufId", v) : v \in Ids} \cup {Obj(<<>>)}
      [] tool = "getCityDetails" -> {One("cityId", v) : v \in Ids} \cup {Obj(<<>>)}
      [] tool = "getCountryDetails" -> {One("countryId", v) : v \in Ids} \cup {Obj(<<>>)}
      [] tool = "getNBMDetails" -> {One("coNbm", v) : v \in Ids} \cup {Obj(<<>>)}
      [] tool = "getCountries" ->
           {Obj(<<>>), One("search", Str("bra")), One("search", Str("")),
            One("search", Num(1))}
      [] tool = "getEconomicBlocks" ->
           {Obj(<<>>), One("language", Str("en")), One("add", Str("country")),
            Two("language", Str("en"), "search", Str("mercosul")),
            One("language", Num(1)), One("add", Bool(TRUE))}
      [] tool = "getHarmonizedSystem" ->
           {Obj(<<>>), One("language", Str("en")), Two("page", Num(2), "perPage", Num(20)),
            One("add", Str("ncm")), One("page", Str("2")), One("perPage", Num(0))}
      [] tool = "getNBM" ->
           {Obj(<<>>), One("language", Str("en")), Two("page", Num(3), "perPage", Num(0)),
            One("search", Str("cafe")), One("perPage", Str("5")), One("add", Str("ncm"))}
      [] OTHER -> {Obj(<<>>), One("language", Str("en"))}

\* the arguments of the client methods called directly, by parameter name
ClientArgs(op) ==
    CASE op \in QueryTools ->
           {With(QueryBase, "period", p) : p \in Periods}
           \cup {Without(QueryBase, f) : f \in {"period", "filters", "monthDetail"}}
           \cup {With(QueryBase, "language", l) : l \in {Str("en"), Null}}
      [] op = "getAuxiliaryTable" ->
           {One("table", Str("countries")),
            Two("table", Str("countries"), "page", Num(0)),
            Two("table", Str("countries"), "pageSize", Num(0))}
      [] op \in OptionsTools ->
           {Obj(<<>>), One("options", One("language", Str("en")))}
      [] op \in ListOps \cup {"getFilterValues"} ->
           {One("filter", Str("country")),
            Two("filter", Str("country"), "language", Str("en")),
            Two("filter", Str("country"), "language", Null)}
      [] OTHER -> {Obj(<<>>)}

DirectOps ==
    QueryTools \cup OptionsTools \cup ListOps \cup {"getAuxiliaryTable", "getFilterValues"}

---------------------------------------------------------------------------
(* What the upstream and the network may do with a request.                *)

Item(id, text) == Obj(<< <<"id", Str(id)>>, <<"text", Str(text)>> >>)

\* the upstream's envelope {data, success, message, processo_info, language}
Envelope(data) ==
    Obj(<< <<"data", data>>, <<"success", Bool(TRUE)>>, <<"message", Null>>,
           <<"processo_info", Null>>, <<"language", Str("pt")>> >>)

Bodies ==
    {Envelope(Obj(<< <<"list", Arr(<<Item("1", "Brazil")>>)>>, <<"count", Num(1)>> >>)),
     Envelope(Arr(<<Arr(<<Item("1", "Brazil")>>)>>)),
     Envelope(Arr(<<Arr(<<Item("1", "Brazil")>>),
                    Arr(<<Item("2", "Chile"), Item("3", "Peru")>>)>>)),
     Envelope(Arr(<<Arr(<<>>), Arr(<<Item("2", "Chile")>>)>>)),
     Envelope(Obj(<< <<"updated", Str("2024-05-01")>>, <<"year", Str("2024")>>,
                     <<"monthNumber", Str("05")>> >>)),
     One("message", Str("Invalid parameters")),
     Two("message", Str(""), "success", Bool(FALSE)),
     Two("message", Null, "success", Bool(FALSE)),
     One("error", Str("Internal Server Error")),
     Str("")}

Statuses == {200, 304, 400, 500}

NetOutcomes ==
    {[kind |-> "response", status |-> st, data |-> b] : st \in Statuses, b \in Bodies}
    \cup {[kind |-> "network"], [kind |-> "timeout"], [kind |-> "exception"]}

---------------------------------------------------------------------------
(* The server: the invocations it is handling.                             *)

MaxCalls == 2

CallIds == 1..MaxCalls

Init ==
    /\ calls = [c \in CallIds |-> IdleCall]
    /\ config = ClientConfig
    /\ catalog = ToolNames

\* no other invocation is being handled
Alone(c) == \A d \in CallIds \ {c} : calls[d].pc = "idle"

\* a caller invokes a registered tool
CallTool(c, tool, rawArgs) ==
    /\ calls[c].pc = "idle"
    /\ tool \in catalog
    /\ calls' = [calls EXCEPT ![c] = InvokeTool(tool, rawArgs)]
    /\ UNCHANGED <<config, catalog>>

\* a caller calls a client method directly
CallClient(c, op, a) ==
    /\ calls[c].pc = "idle"
    /\ calls' = [calls EXCEPT ![c] = InvokeClient(op, a)]
    /\ UNCHANGED <<config, catalog>>

\* the HTTP request of an invocation settles, and the invocation completes
Respond(c, net) ==
    /\ calls[c].pc = "awaiting"
    /\ calls' = [calls EXCEPT ![c] = Resume(calls[c], net)]
    /\ UNCHANGED <<config, catalog>>

\* Discard with a response cache: the last response stays with the server
\* after the invocation has ended
DiscardKeepResponse(c) ==
    /\ calls[c].pc = "done"
    /\ calls' = [calls EXCEPT ![c] = [IdleCall EXCEPT !.net = calls[c].net]]
    /\ UNCHANGED <<config, catalog>>

\* the outcome has been delivered; nothing of the invocation is kept
Discard(c) ==
    /\ calls[c].pc = "done"
    /\ calls' = [calls EXCEPT ![c] = IdleCall]
    /\ UNCHANGED <<config, catalog>>

\* a tool invocation arrives while no other is being handled
SerialTool(c) ==
    /\ Alone(c)
    /\ \E tool \in ToolNames : \E rawArgs \in ToolArgs(tool) : CallTool(c, tool, rawArgs)

\* a direct client call arrives while no other is being handled
SerialClient(c) ==
    /\ Alone(c)
    /\ \E op \in DirectOps : \E a \in ClientArgs(op) : CallClient(c, op, a)

Settled(c) == \E net \in NetOutcomes : Respond(c, net)

\* invocations handled one at a time, over every tool and argument
Next ==
    \E c \in CallIds : SerialTool(c) \/ SerialClient(c) \/ Settled(c) \/ Discard(c)

Spec == Init /\ [][Next]_vars

\* the HTTP library settles every request it was handed: the upstream
\* answers, the connection fails, or the configured timeout expires
SpecLive == Spec /\ \A c \in CallIds : WF_vars(Settled(c))

---------------------------------------------------------------------------
(* Concurrent invocations: any number of them in flight at once, their     *)
(* responses arriving in any order, over a few invocations and responses.  *)

ConcurrentToolInputs ==
    {<<"queryData", QueryBase>>,
     <<"queryData", With(QueryBase, "flow", Str("import"))>>,
     <<"queryData", With(QueryBase, "period", Period(Str("2023-1"), Str("2023-12")))>>,
     <<"getFilterValues", One("filter", Str("country"))>>}

ConcurrentClientInputs ==
    {<<"queryData", QueryBase>>,
     <<"queryData", With(QueryBase, "period", Period(Str("2023-01"), Str("23-12")))>>}

ConcurrentNetOutcomes ==
    {[kind |-> "response", status |-> 200,
      data |-> Envelope(Arr(<<Arr(<<Item("1", "Brazil")>>)>>))],
     [kind |-> "response", status |-> 400, data |-> One("message", Str("Invalid parameters"))],
     [kind |-> "network"],
     [kind |-> "exception"]}

ConcurrentTool(c) == \E inp \in ConcurrentToolInputs : CallTool(c, inp[1], inp[2])

ConcurrentClient(c) == \E inp \in ConcurrentClientInputs : CallClient(c, inp[1], inp[2])

ConcurrentSettled(c) == \E net \in ConcurrentNetOutcomes : Respond(c, net)

NextConcurrent ==
    \E c \in CallIds :
        ConcurrentTool(c) \/ ConcurrentClient(c) \/ ConcurrentSettled(c) \/ Discard(c)

SpecConcurrent == Init /\ [][NextConcurrent]_vars

---------------------------------------------------------------------------
(* Vocabulary of the properties below.                                     *)

\* s matches ^\d{4}-\d{2}$
MatchesYearMonth(s) ==
    /\ Len(s) = 7
    /\ \A i \in {1, 2, 3, 4, 6, 7} : CharAt(s, i) \in Digits
    /\ CharAt(s, 5) = "-"

\* the invocation was started through the tool registry
ToolCallOf(k, tool) == k.pc # "idle" /\ k.via = "tool" /\ k.op = tool

\* the client method was called directly
ClientCallOf(k, op) == k.pc # "idle" /\ k.via = "client" /\ k.op = op

\* the invocation ended in an error without any HTTP request on its behalf
FailedWithoutRequest(k) ==
    /\ k.pc = "done"
    /\ IsThrew(k.outcome)
    /\ k.reqs = <<>>
    /\ \A i \in 1..Len(k.events) : k.events[i] # "request"

\* the invocation was rejected by validation
Rejected(k) == FailedWithoutRequest(k) /\ k.outcome.error.name = "ValidationError"

\* a period bound that is no string matching ^\d{4}-\d{2}$
MalformedBound(b) == ~(IsStr(b) /\ MatchesYearMonth(b.str))

MalformedPeriod(args) ==
    LET period == Get(args, "period")
    IN \/ MalformedBound(Get(period, "from"))
       \/ MalformedBound(Get(period, "to"))

---------------------------------------------------------------------------
\* C1: for every tool, an invocation whose arguments fail the tool's schema
\* (a required field missing, a wrong type, a value outside an enumerated
\* set, a period bound not matching ^\d{4}-\d{2}$) ends in an error, and no
\* HTTP request is issued on its behalf.
C1_InvalidArgumentsNeverReachHttp ==
    \A c \in CallIds :
        LET k == calls[c]
        IN /\ (k.pc # "idle" /\ k.via = "tool"
                 /\ ~Parse(ToolSchema(k.op), k.args, "").ok)
              => FailedWithoutRequest(k)
           /\ (k.pc # "idle" /\ k.via = "tool" /\ k.op \in QueryTools
                 /\ MalformedPeriod(k.args))
              => FailedWithoutRequest(k)

\* a queryData invocation with a malformed period.from has been rejected
C1_Witness ==
    \E c \in CallIds :
        /\ ToolCallOf(calls[c], "queryData")
        /\ Get(Get(calls[c].args, "period"), "from") = Str("2023-1")
        /\ \E i \in 1..Len(calls[c].outcome.error.issues) :
               calls[c].outcome.error.issues[i] =
                   [path |-> "period.from", code |-> "invalid_string"]
        /\ FailedWithoutRequest(calls[c])

\* C2: the client's queryData, queryMunicipalitiesData and queryHistoricalData,
\* called directly with a period.from or period.to that does not match
\* ^\d{4}-\d{2}$, raise the malformed-period error and issue no HTTP request.
C2_PreflightRejectsMalformedPeriod ==
    \A c \in CallIds :
        LET k == calls[c]
            period == Get(k.args, "period")
        IN (k.pc # "idle" /\ k.via = "client" /\ k.op \in QueryTools
              /\ IsObj(period)
              /\ (\/ ~MatchesYearMonth(ToStr(Get(period, "from")))
                  \/ ~MatchesYearMonth(ToStr(Get(period, "to")))))
           => /\ k.pc = "done"
              /\ k.result = Threw(PeriodError)
              /\ k.reqs = <<>>

\* a direct queryHistoricalData call with a malformed period.to has thrown
C2_Witness ==
    \E c \in CallIds :
        /\ ClientCallOf(calls[c], "queryHistoricalData")
        /\ Get(calls[c].args, "period") = Period(Str("2023-01"), Str("23-01"))
        /\ calls[c].result = Threw(PeriodError)
        /\ calls[c].reqs = <<>>

\* the flow of a queryData invocation is outside {export, import}
FlowOutside(args) ==
    LET flow == Get(args, "flow")
    IN ~(IsStr(flow) /\ flow.str \in {"export", "import"})

\* some filters[].filter is outside the 8-value set
FilterOutside(args) ==
    LET filters == Get(args, "filters")
    IN /\ IsArr(filters)
       /\ \E i \in 1..Len(filters.arr) :
              LET name == Get(filters.arr[i], "filter")
              IN ~(IsStr(name) /\ name.str \in
                     {"country", "state", "economicBlock", "section", "chapter",
                      "position", "subposition", "ncm"})

\* some metrics[] entry is outside the 6-value set
MetricOutside(args) ==
    LET metrics == Get(args, "metrics")
    IN /\ IsArr(metrics)
       /\ \E i \in 1..Len(metrics.arr) :
              ~(IsStr(metrics.arr[i]) /\ metrics.arr[i].str \in
                  {"metricFOB", "metricKG", "metricStatistic", "metricFreight",
                   "metricInsurance", "metricCIF"})

\* C3: a queryData invocation is rejected whenever flow is outside
\* {export, import}, or a filters[].filter is outside the 8-value set, or a
\* metrics[] entry is outside the 6-value set.
C3_QueryDataEnumsEnforced ==
    \A c \in CallIds :
        (/\ ToolCallOf(calls[c], "queryData")
         /\ \/ FlowOutside(calls[c].args)
            \/ FilterOutside(calls[c].args)
            \/ MetricOutside(calls[c].args))
        => Rejected(calls[c])

\* a queryData invocation filtering on "city" has been rejected
C3_Witness ==
    \E c \in CallIds :
        /\ ToolCallOf(calls[c], "queryData")
        /\ FilterOutside(calls[c].args)
        /\ ~FlowOutside(calls[c].args)
        /\ ~MetricOutside(calls[c].args)
        /\ Rejected(calls[c])

\* the value of the query parameter name that the request sends, undefined
\* when it sends none
QueryParam(req, name) ==
    LET query == EffectiveQuery(req)
    IN IF \E i \in 1..Len(query) : query[i][1] = name
       THEN query[CHOOSE i \in 1..Len(query) : query[i][1] = name][2]
       ELSE Undefined

\* the upstream answered the invocation's request with a 2xx status
AnsweredOk(k) ==
    k.pc = "done" /\ k.net.kind = "response" /\ k.net.status \in 200..299

\* the tool invocation returned the JSON text of value as its one content item
ReturnedJson(k, value) ==
    k.outcome =
        Returned(Obj(<< <<"content",
            Arr(<< Obj(<< <<"type", Str("text")>>,
                          <<"text", Str(JSONText(value))>> >>) >>)>> >>))

\* C4: the README's queryData example (details ["country", "month"]) is
\* accepted and issues exactly one POST to /general with query
\* {language: "pt"} and a body equal to the supplied flow, monthDetail,
\* period, filters, details and metrics, returning the upstream envelope
\* unmodified.
C4_ReadmeExampleIssuesOnePost ==
    \A c \in CallIds :
        LET k == calls[c]
        IN (ToolCallOf(k, "queryData") /\ k.args = ReadmeExample)
           => /\ Len(k.reqs) = 1
              /\ k.reqs[1].method = "POST"
              /\ k.reqs[1].url = "/general"
              /\ EffectiveQuery(k.reqs[1]) = << <<"language", Str("pt")>> >>
              /\ k.reqs[1].data =
                     Obj(<< <<"flow", Str("export")>>,
                            <<"monthDetail", Bool(FALSE)>>,
                            <<"period", Period(Str("2023-01"), Str("2023-12"))>>,
                            <<"filters", Arr(<<FilterClause("country", Nums(<<105>>))>>)>>,
                            <<"details", Strs(<<"country", "month">>)>>,
                            <<"metrics", Strs(<<"metricFOB", "metricKG">>)>> >>)
              /\ AnsweredOk(k) => (k.result = Returned(k.net.data)
                                     /\ ReturnedJson(k, k.net.data))

\* the path each query tool posts to
QueryPath(tool) ==
    CASE tool = "queryData" -> "/general"
      [] tool = "queryMunicipalitiesData" -> "/cities"
      [] OTHER -> "/historical-data"

BodyFields == <<"flow", "monthDetail", "period", "filters", "details", "metrics">>

IsArrayOfArrays(v) ==
    IsArr(v) /\ Len(v.arr) > 0 /\ \A i \in 1..Len(v.arr) : IsArr(v.arr[i])

\* C6: for getFilterValues, whenever the upstream response's data is an array
\* of arrays, the shaped result is the first inner array data[0], whatever
\* follows it.
C6_FilterValuesUnwrapsFirstArray ==
    \A c \in CallIds :
        LET k == calls[c]
            data == Get(k.net.data, "data")
        IN (k.op = "getFilterValues" /\ AnsweredOk(k) /\ IsArrayOfArrays(data))
           => /\ k.result = Returned(data.arr[1])
              /\ k.via = "tool" => ReturnedJson(k, data.arr[1])

\* getFilterValues has returned the first of two inner arrays
C6_Witness ==
    \E c \in CallIds :
        LET data == Get(calls[c].net.data, "data")
        IN /\ ToolCallOf(calls[c], "getFilterValues")
           /\ AnsweredOk(calls[c])
           /\ IsArrayOfArrays(data)
           /\ Len(data.arr) = 2
           /\ calls[c].result = Returned(Arr(<<Item("1", "Brazil")>>))

\* C7: getAuxiliaryTable invoked with only a table issues a GET to
\* /auxiliary/{table} with query parameters page=1 and pageSize=100; a page
\* or pageSize the caller supplies is sent instead of the default.
C7_AuxiliaryTablePagingDefaults ==
    \A c \in CallIds :
        LET k == calls[c]
        IN (k.pc # "idle" /\ k.op = "getAuxiliaryTable"
              /\ (k.via = "tool" => Parse(ToolSchema(k.op), k.args, "").ok))
           => /\ Len(k.reqs) = 1
              /\ k.reqs[1].method = "GET"
              /\ k.reqs[1].url = "/auxiliary/" \o Get(k.args, "table").str
              /\ QueryParam(k.reqs[1], "page") =
                     (IF HasKey(k.args, "page") THEN Get(k.args, "page") ELSE Num(1))
              /\ QueryParam(k.reqs[1], "pageSize") =
                     (IF HasKey(k.args, "pageSize") THEN Get(k.args, "pageSize")
                      ELSE Num(100))
              /\ Keys(k.args) = <<"table">>
                   => EffectiveQuery(k.reqs[1]) =
                          << <<"page", Num(1)>>, <<"pageSize", Num(100)>> >>

\* getAuxiliaryTable has been invoked with only table = "countries"
C7_Witness ==
    \E c \in CallIds :
        /\ ToolCallOf(calls[c], "getAuxiliaryTable")
        /\ calls[c].args = One("table", Str("countries"))
        /\ Len(calls[c].reqs) = 1
        /\ EffectiveQuery(calls[c].reqs[1]) =
               << <<"page", Num(1)>>, <<"pageSize", Num(100)>> >>

\* a caller-supplied page of 0 has been sent
C7_WitnessSupplied ==
    \E c \in CallIds :
        /\ ToolCallOf(calls[c], "getAuxiliaryTable")
        /\ Get(calls[c].args, "page") = Num(0)
        /\ Len(calls[c].reqs) = 1
        /\ QueryParam(calls[c].reqs[1], "page") = Num(0)

\* the invocation gets as far as the HTTP request: its arguments pass the
\* tool's schema (when it came through the registry) and the period check
Accepted(k) ==
    /\ k.via = "tool" => Parse(ToolSchema(k.op), k.args, "").ok
    /\ ~MalformedPeriod(k.args)

\* C8: the same queryData call issued twice with identical arguments makes
\* two HTTP calls, one for each, with byte-identical request bodies; the
\* second is never answered from a cache or memo, whatever the outcome of
\* the first.
C8_SameCallTwiceTwoRequests ==
    \A c, d \in CallIds :
        (/\ c # d
         /\ calls[c].pc # "idle" /\ calls[d].pc # "idle"
         /\ calls[c].op = "queryData" /\ calls[d].op = "queryData"
         /\ calls[c].via = calls[d].via
         /\ calls[c].args = calls[d].args
         /\ Accepted(calls[c]))
        => /\ Len(calls[c].reqs) = 1
           /\ Len(calls[d].reqs) = 1
           /\ calls[c].reqs[1].method = "POST" /\ calls[d].reqs[1].method = "POST"
           /\ JSONText(calls[c].reqs[1].data) = JSONText(calls[d].reqs[1].data)
           /\ calls[c].reqs[1] = calls[d].reqs[1]

\* a queryData invocation has been answered, and the same invocation made
\* again has its own request in flight
C8_Witness ==
    \E c, d \in CallIds :
        /\ c # d
        /\ ToolCallOf(calls[c], "queryData") /\ ToolCallOf(calls[d], "queryData")
        /\ calls[c].args = calls[d].args
        /\ calls[c].pc = "done" /\ IsReturned(calls[c].outcome)
        /\ calls[d].pc = "awaiting"
        /\ Len(calls[d].reqs) = 1

\* the upstream answered the invocation's request with a failing status
UpstreamFailure(k) ==
    k.pc = "done" /\ k.net.kind = "response" /\ k.net.status >= 400

\* the error raised carries {status, message, endpoint}
Carries(k, status, message, endpoint) ==
    /\ IsThrew(k.result)
    /\ k.result.error.apiError =
           Obj(<< <<"status", status>>, <<"message", message>>,
                  <<"endpoint", endpoint>> >>)

\* C9 as stated: when the upstream answers with a failing status and a body
\* containing a message field, the error surfaced carries the body's message,
\* the upstream status and the originating endpoint.
C9_UpstreamMessageSurfaced ==
    \A c \in CallIds :
        LET k == calls[c]
        IN (UpstreamFailure(k) /\ HasKey(k.net.data, "message"))
           => Carries(k, Num(k.net.status), Get(k.net.data, "message"),
                      Str(k.reqs[1].url))

\* C9 as amended: when the upstream answers with a failing status, the error
\* surfaced carries the upstream status and the originating endpoint, and its
\* message is the body's message when that is non-empty (truthy), and
\* otherwise the HTTP library's own "Request failed with status code N".
C9_UpstreamErrorCarried ==
    \A c \in CallIds :
        LET k == calls[c]
            message == Get(k.net.data, "message")
        IN UpstreamFailure(k)
           => Carries(k, Num(k.net.status),
                      IF Truthy(message) THEN message
                      ELSE Str("Request failed with status code "
                               \o ToString(k.net.status)),
                      Str(k.reqs[1].url))

\* the upstream has answered 400 with {message: "Invalid parameters"}
C9_Witness ==
    \E c \in CallIds :
        /\ UpstreamFailure(calls[c])
        /\ calls[c].net.status = 400
        /\ calls[c].net.data = One("message", Str("Invalid parameters"))
        /\ Carries(calls[c], Num(400), Str("Invalid parameters"),
                   Str(calls[c].reqs[1].url))

\* the HTTP library failed the invocation's request
HttpFailed(k) ==
    /\ k.pc = "done"
    /\ k.net.kind # "none"
    /\ IsThrew(Settle(k.reqs[Len(k.reqs)], k.net))

\* event a happens, and event b happens after it
Before(events, a, b) ==
    \E i, j \in 1..Len(events) : i < j /\ events[i] = a /\ events[j] = b

\* C10: whenever the HTTP capability fails during a client get or post (an
\* HTTP error, or any other exception), a log entry is emitted before the
\* error is raised, the same error is rethrown, and the call never returns a
\* success value.
C10_FailureLoggedThenRethrown ==
    \A c \in CallIds :
        LET k == calls[c]
            failure == Settle(k.reqs[Len(k.reqs)], k.net).error
        IN HttpFailed(k)
           => /\ Len(k.console) = 1
              /\ Before(k.events, "log", "throw")
              /\ \A i \in 1..Len(k.events) : k.events[i] # "return"
              /\ IsThrew(k.result)
              /\ [k.result.error EXCEPT !.apiError = Undefined] = failure
              /\ k.via = "tool" => k.outcome = k.result

\* an exception that is no HTTP error has been logged and rethrown
C10_Witness ==
    \E c \in CallIds :
        /\ HttpFailed(calls[c])
        /\ calls[c].net.kind = "exception"
        /\ calls[c].console = << <<Str("Non-Axios error:"), Str("unexpected failure")>> >>
        /\ IsThrew(calls[c].result)
        /\ ~calls[c].result.error.isAxiosError

\* a timeout has been logged and rethrown
C10_WitnessTimeout ==
    \E c \in CallIds :
        /\ HttpFailed(calls[c])
        /\ calls[c].net.kind = "timeout"
        /\ calls[c].console =
               << <<Str("API Error (undefined): timeout of 30000ms exceeded")>> >>
        /\ IsThrew(calls[c].result)

---------------------------------------------------------------------------
\* the number of entries of events equal to e
Count(events, e) == Cardinality({i \in 1..Len(events) : events[i] = e})

\* the network failed the invocation's request: an error status, a network
\* error or a timeout
NetFailed(k) ==
    \/ k.net.kind \in {"network", "timeout"}
    \/ k.net.kind = "response" /\ k.net.status >= 400

\* C11: every tool invocation issues at most one HTTP request; after an
\* upstream failure (error status, network error or timeout) the request is
\* not sent again, and no invocation splits its work into several requests.
C11_AtMostOneRequest ==
    \A c \in CallIds :
        LET k == calls[c]
        IN /\ Len(k.reqs) <= 1
           /\ Count(k.events, "request") = Len(k.reqs)
           /\ k.pc = "awaiting" => Len(k.reqs) = 1
           /\ NetFailed(k) => (k.pc = "done" /\ Len(k.reqs) = 1)

\* a tool invocation whose request timed out has ended with its one request
C11_Witness ==
    \E c \in CallIds :
        /\ ToolCallOf(calls[c], "queryData")
        /\ calls[c].net.kind = "timeout"
        /\ calls[c].pc = "done"
        /\ Len(calls[c].reqs) = 1

\* the value is {content: [{type: "text", text}]}
IsContent(v) ==
    /\ IsObj(v)
    /\ Keys(v) = <<"content">>
    /\ IsArr(Get(v, "content"))
    /\ Len(Get(v, "content").arr) = 1
    /\ Keys(Get(v, "content").arr[1]) = <<"type", "text">>
    /\ Get(Get(v, "content").arr[1], "type") = Str("text")

\* C12: every tool invocation ends in exactly one of two outcomes, a content
\* result or an error; when the client call made by the handler fails with
\* error E the invocation fails with E, message included, and yields no
\* content.
C12_ContentOrError ==
    \A c \in CallIds :
        LET k == calls[c]
        IN (k.via = "tool" /\ k.pc = "done")
           => /\ k.outcome # Pending
              /\ IsThrew(k.outcome) \/ (IsReturned(k.outcome) /\ IsContent(k.outcome.value))
              /\ IsThrew(k.result)
                   => /\ k.outcome = Threw(k.result.error)
                      /\ k.outcome.error.message = k.result.error.message
              /\ IsReturned(k.outcome) => IsReturned(k.result)

\* the client call of a tool handler failed on a 500, and the invocation
\* failed with the same error
C12_Witness ==
    \E c \in CallIds :
        /\ ToolCallOf(calls[c], "getStates")
        /\ calls[c].pc = "done"
        /\ calls[c].net.kind = "response" /\ calls[c].net.status = 500
        /\ IsThrew(calls[c].result)
        /\ calls[c].outcome = calls[c].result

---------------------------------------------------------------------------
\* what an invocation does when it runs alone, as a function of how it was
\* made (via, op, args), how far it has got (pc) and what the network did
\* with its own request (net): the requests issued, what was logged, the
\* client's result and the invocation's outcome
AloneRun(via, op, args, pc, net) ==
    LET parsed == Parse(ToolSchema(op), args, "")
        rejected == via = "tool" /\ ~parsed.ok
        a == IF via = "tool" THEN HandlerArgs(op, parsed.value) ELSE args
        started == ClientCall(op, a)
        after == afterRequest(Settle(started.req, net))
        result == IF after.result.threw THEN after.result
                  ELSE ClientResult(op, after.result.value)
    IN IF rejected
       THEN [reqs |-> <<>>, console |-> <<>>, result |-> Pending,
             outcome |-> Threw(ValidationError(parsed.issues))]
       ELSE IF started.threw
       THEN [reqs |-> <<>>, console |-> <<>>, result |-> Threw(started.error),
             outcome |-> IF via = "tool" THEN Threw(started.error) ELSE Pending]
       ELSE IF pc = "awaiting"
       THEN [reqs |-> <<started.req>>, console |-> <<>>, result |-> Pending,
             outcome |-> Pending]
       ELSE [reqs |-> <<started.req>>, console |-> after.console, result |-> result,
             outcome |-> IF via # "tool" THEN Pending
                         ELSE IF result.threw THEN result
                         ELSE Returned(HandlerContent(op, result.value))]

\* C13: with any number of invocations in flight at once and their responses
\* arriving in any order, what each invocation requests, logs, returns and
\* ends with is what it would have running alone on its own arguments and the
\* response to its own request; nothing of another invocation enters it.
C13_ConcurrentInvocationsIndependent ==
    \A c \in CallIds :
        LET k == calls[c]
            run == AloneRun(k.via, k.op, k.args, k.pc, k.net)
        IN k.pc # "idle"
           => /\ k.reqs = run.reqs
              /\ k.console = run.console
              /\ k.result = run.result
              /\ k.outcome = run.outcome

\* two invocations of queryData with the same arguments are alive together,
\* one answered with content from a 200 and the other failed on a 400
C13_Witness ==
    \E c, d \in CallIds :
        /\ c # d
        /\ ToolCallOf(calls[c], "queryData") /\ ToolCallOf(calls[d], "queryData")
        /\ calls[c].args = calls[d].args
        /\ calls[c].pc = "done" /\ calls[d].pc = "done"
        /\ calls[c].net.kind = "response" /\ calls[c].net.status = 200
        /\ calls[d].net.kind = "response" /\ calls[d].net.status = 400
        /\ IsReturned(calls[c].outcome)
        /\ IsThrew(calls[d].outcome)

\* two invocations have their requests in flight at the same time
C13_WitnessInFlight ==
    \E c, d \in CallIds :
        /\ c # d
        /\ calls[c].pc = "awaiting" /\ calls[d].pc = "awaiting"
        /\ calls[c].op # calls[d].op

---------------------------------------------------------------------------
\* C14: after initialization no tool invocation, whether it succeeds, is
\* rejected by validation or fails upstream, changes any server state: the
\* tool catalog and the HTTP client configuration (base URL, timeout,
\* headers) stay as constructed, and nothing of a request or a response is
\* kept once the invocation has completed.
C14_InvocationsLeaveServerStateAlone ==
    /\ catalog = ToolNames
    /\ config = ClientConfig
    /\ config.baseURL = DefaultBaseUrl
    /\ config.timeout = TimeoutMs
    /\ \A c \in CallIds : calls[c].pc = "idle" => calls[c] = IdleCall

\* one invocation has failed upstream while the other slot, whose
\* invocation is over, holds nothing, and the configuration is as constructed
C14_Witness ==
    \E c, d \in CallIds :
        /\ c # d
        /\ calls[c].via = "tool" /\ calls[c].pc = "done"
        /\ calls[c].net.kind = "response" /\ calls[c].net.status = 500
        /\ IsThrew(calls[c].outcome)
        /\ calls[d] = IdleCall
        /\ config = ClientConfig /\ catalog = ToolNames

\* an invocation rejected by validation has ended, the configuration and
\* the catalog being as constructed
C14_WitnessRejected ==
    \E c \in CallIds :
        /\ Rejected(calls[c])
        /\ config = ClientConfig /\ catalog = ToolNames

---------------------------------------------------------------------------
\* the tool invocation has its outcome: a content result or an error
Terminal(c) ==
    calls[c].pc = "done" /\ (IsThrew(calls[c].outcome) \/ IsReturned(calls[c].outcome))

\* the tool invocation is waiting for its HTTP request to settle
ToolAwaiting(c) == calls[c].via = "tool" /\ calls[c].pc = "awaiting"

\* C15: every tool invocation eventually reaches a terminal outcome (a
\* result, a timeout after the fixed 30 second budget, or a failure): given
\* that the HTTP capability always either responds or times out, no
\* invocation stays pending forever.
C15_EveryInvocationTerminates ==
    \A c \in CallIds :
        /\ [](calls[c].via = "tool" => (ToolAwaiting(c) \/ Terminal(c)))
        /\ ToolAwaiting(c) ~> Terminal(c)

\* a tool invocation has ended on the expiry of the 30 second timeout
C15_Witness ==
    \E c \in CallIds :
        /\ calls[c].via = "tool"
        /\ Terminal(c)
        /\ calls[c].net.kind = "timeout"
        /\ config.timeout = 30000
        /\ IsThrew(calls[c].outcome)
        /\ calls[c].outcome.error.message = "timeout of 30000ms exceeded"

---------------------------------------------------------------------------
\* the upstream answered the invocation's request
Answered(k) == k.pc = "done" /\ k.net.kind = "response"

\* get / post returned the response body to the client method
GotBody(k) == \E i \in 1..Len(k.events) : k.events[i] = "return"

\* get / post raised the HTTP error of the response
RaisedHttpError(k) ==
    /\ IsThrew(k.result)
    /\ k.result.error.isAxiosError
    /\ Get(k.result.error.apiError, "status") = Num(k.net.status)
    /\ ~GotBody(k)

\* C16 as stated: a response with status 400 or more is a failure, every
\* response that is not 2xx is turned into an error, and a response is
\* returned as a success only when its status is 2xx.
C16_OnlySuccessStatusReturned ==
    \A c \in CallIds :
        LET k == calls[c]
        IN Answered(k)
           => /\ k.net.status >= 400 => RaisedHttpError(k)
              /\ k.net.status \notin 200..299 => IsThrew(k.result)
              /\ GotBody(k) => k.net.status \in 200..299

\* C16 as amended: a response is treated as a failure exactly when its status
\* is 400 or more; every response with a status below 400, the 2xx and also
\* a 3xx such as 304, is handed to the caller as a success.
C16_FailureFromStatus400 ==
    \A c \in CallIds :
        LET k == calls[c]
        IN Answered(k)
           => /\ k.net.status >= 400 <=> RaisedHttpError(k)
              /\ k.net.status < 400 <=> GotBody(k)
              /\ k.net.status < 400 => k.result = ClientResult(k.op, k.net.data)
              /\ k.net.status < 400 => k.console = <<>>

\* a 304 has been returned to the caller of queryData as a success
C16_Witness ==
    \E c \in CallIds :
        /\ Answered(calls[c])
        /\ calls[c].net.status = 304
        /\ ToolCallOf(calls[c], "queryData")
        /\ IsReturned(calls[c].outcome)
        /\ calls[c].result = Returned(calls[c].net.data)

\* a 400 has been raised to the caller as an HTTP error
C16_WitnessFailure ==
    \E c \in CallIds :
        /\ Answered(calls[c])
        /\ calls[c].net.status = 400
        /\ RaisedHttpError(calls[c])

---------------------------------------------------------------------------
\* the text of the one content item of a content result
ContentText(v) == Get(Get(v, "content").arr[1], "text")

\* C17: every successful tool invocation returns {content: [{type: "text",
\* text}]} with exactly one content item of type text whose text is a string
\* (the JSON serialization of the shaped result, or for getLastUpdate the
\* update date itself), for every upstream response accepted as a success.
C17_SuccessIsOneTextItem ==
    \A c \in CallIds :
        LET k == calls[c]
        IN (k.via = "tool" /\ k.pc = "done" /\ IsReturned(k.outcome))
           => /\ IsContent(k.outcome.value)
              /\ IsStr(ContentText(k.outcome.value))
              /\ k.op # "getLastUpdate"
                   => ContentText(k.outcome.value) = Str(JSONText(k.result.value))
              /\ k.op = "getLastUpdate"
                   => ContentText(k.outcome.value) = k.result.value

---------------------------------------------------------------------------
LookupOps ==
    {"getLastUpdate", "getAvailableYears", "getAvailableFilters",
     "getAvailableFields", "getAvailableMetrics"}

\* the path each general lookup requests
LookupPath(op) ==
    CASE op = "getLastUpdate" -> "/general/dates/updated"
      [] op = "getAvailableYears" -> "/general/dates/years"
      [] op = "getAvailableFilters" -> "/general/filters"
      [] op = "getAvailableFields" -> "/general/details"
      [] OTHER -> "/general/metrics"

\* the unwrap rule of each general lookup, applied to the body's data
LookupUnwrap(op, data) ==
    CASE op = "getLastUpdate" -> Get(data, "updated")
      [] op = "getAvailableYears" -> data
      [] OTHER -> Get(data, "list")

C18_WitnessLastUpdate ==
    \E c \in CallIds :
        /\ ToolCallOf(calls[c], "getLastUpdate")
        /\ AnsweredOk(calls[c])
        /\ calls[c].reqs[1].url = "/general/dates/updated"
        /\ calls[c].result = Returned(Str("2024-05-01"))
        /\ ContentText(calls[c].outcome.value) = Str("2024-05-01")

---------------------------------------------------------------------------
\* the operations the catalog is to contain
CatalogOperations ==
    {"getLastUpdate", "getAvailableYears", "getAvailableFilters", "getFilterValues",
     "getAvailableFields", "getAvailableMetrics", "queryData",
     "queryMunicipalitiesData", "queryHistoricalData", "getAuxiliaryTable",
     "getStates", "getStateDetails", "getCities", "getCityDetails", "getCountries",
     "getCountryDetails", "getEconomicBlocks", "getHarmonizedSystem", "getNBM",
     "getNBMDetails"}

\* the request line that tells each tool's handler from every other: the
\* method, the path, and the argument that ends the path, if any
OwnRequestLine(tool) ==
    CASE tool = "getLastUpdate" -> <<"GET", "/general/dates/updated", "">>
      [] tool = "getAvailableYears" -> <<"GET", "/general/dates/years", "">>
      [] tool = "getAvailableFilters" -> <<"GET", "/general/filters", "">>
      [] tool = "getFilterValues" -> <<"GET", "/general/filters/", "filter">>
      [] tool = "getAvailableFields" -> <<"GET", "/general/details", "">>
      [] tool = "getAvailableMetrics" -> <<"GET", "/general/metrics", "">>
      [] tool = "queryData" -> <<"POST", "/general", "">>
      [] tool = "queryMunicipalitiesData" -> <<"POST", "/cities", "">>
      [] tool = "queryHistoricalData" -> <<"POST", "/historical-data", "">>
      [] tool = "getAuxiliaryTable" -> <<"GET", "/auxiliary/", "table">>
      [] tool = "getStates" -> <<"GET", "/tables/uf", "">>
      [] tool = "getStateDetails" -> <<"GET", "/tables/uf/", "ufId">>
      [] tool = "getCities" -> <<"GET", "/tables/cities", "">>
      [] tool = "getCityDetails" -> <<"GET", "/tables/cities/", "cityId">>
      [] tool = "getCountries" -> <<"GET", "/tables/countries", "">>
      [] tool = "getCountryDetails" -> <<"GET", "/tables/countries/", "countryId">>
      [] tool = "getEconomicBlocks" -> <<"GET", "/tables/economic-blocks", "">>
      [] tool = "getHarmonizedSystem" -> <<"GET", "/tables/hs", "">>
      [] tool = "getNBM" -> <<"GET", "/tables/nbm", "">>
      [] OTHER -> <<"GET", "/tables/nbm/", "coNbm">>

\* the request is the one the handler of tool makes for these arguments
FromOwnHandler(tool, args, req) ==
    LET line == OwnRequestLine(tool)
    IN /\ req.method = line[1]
       /\ req.url = IF line[3] = "" THEN line[2]
                    ELSE line[2] \o ToStr(Get(args, line[3]))

\* C19: the catalog of registered tools is fixed once construction completes
\* and contains the twenty operations; an invocation naming any of them is
\* dispatched to that tool's own handler and to no other.
C19_CatalogFixedAndDispatchedByName ==
    /\ catalog = CatalogOperations
    /\ Cardinality(catalog) = 20
    /\ \A t1, t2 \in catalog : t1 # t2 => OwnRequestLine(t1) # OwnRequestLine(t2)
    /\ \A c \in CallIds :
           LET k == calls[c]
           IN (k.via = "tool" /\ k.pc # "idle")
              => /\ k.op \in catalog
                 /\ Len(k.reqs) <= 1
                 /\ \A i \in 1..Len(k.reqs) : FromOwnHandler(k.op, k.args, k.reqs[i])
                 /\ \A t \in catalog \ {k.op} :
                        \A i \in 1..Len(k.reqs) : ~FromOwnHandler(t, k.args, k.reqs[i])

\* an invocation naming getCities has made the request of the getCities
\* handler
C19_Witness ==
    \E c \in CallIds :
        /\ ToolCallOf(calls[c], "getCities")
        /\ catalog = CatalogOperations
        /\ calls[c].reqs = <<getRequest("/tables/cities", Undefined)>>

---------------------------------------------------------------------------
\* the fields each operation requires
RequiredFields(tool) ==
    CASE tool = "queryData" -> {"flow", "monthDetail", "period", "details", "metrics"}
      [] tool \in {"queryMunicipalitiesData", "queryHistoricalData"} ->
           {"flow", "period", "details", "metrics"}
      [] tool = "getFilterValues" -> {"filter"}
      [] tool = "getAuxiliaryTable" -> {"table"}
      [] tool = "getStateDetails" -> {"ufId"}
      [] tool = "getCityDetails" -> {"cityId"}
      [] tool = "getCountryDetails" -> {"countryId"}
      [] tool = "getNBMDetails" -> {"coNbm"}
      [] OTHER -> {}

\* the fields each operation takes but does not require
OptionalFields(tool) ==
    CASE tool = "queryData" -> {"filters", "language"}
      [] tool \in {"queryMunicipalitiesData", "queryHistoricalData"} ->
           {"monthDetail", "filters", "language"}
      [] tool = "getFilterValues" -> {"language"}
      [] tool = "getAuxiliaryTable" -> {"search", "page", "pageSize"}
      [] tool = "getCountries" -> {"search"}
      [] tool = "getEconomicBlocks" -> {"language", "add", "search"}
      [] tool = "getHarmonizedSystem" -> {"language", "page", "perPage", "add"}
      [] tool = "getNBM" -> {"language", "page", "perPage", "add", "search"}
      [] OTHER -> {}

\* the validation error of the invocation names the field
NamesField(k, f) ==
    /\ Rejected(k)
    /\ \E i \in 1..Len(k.outcome.error.issues) : k.outcome.error.issues[i].path = f

\* the arguments are a valid invocation of the tool with, at most, optional
\* fields left out
ValidButForOptional(tool, args) ==
    \/ tool \in QueryTools
         /\ \/ args = QueryBase
            \/ \E f \in OptionalFields(tool) : args = Without(QueryBase, f)
    \/ RequiredFields(tool) = {} /\ args = Obj(<<>>)
    \/ tool = "getFilterValues" /\ args = One("filter", Str("country"))
    \/ tool = "getAuxiliaryTable" /\ args = One("table", Str("countries"))
    \/ tool = "getStateDetails" /\ args = One("ufId", Str("26"))
    \/ tool = "getNBMDetails" /\ args = One("coNbm", Str("26"))

\* C20: a tool invocation that omits a required field of its operation fails
\* with a ValidationError that names the field, whereas omitting an optional
\* field alone never causes a failure.
C20_RequiredFieldsEnforced ==
    \A c \in CallIds :
        LET k == calls[c]
        IN (k.via = "tool" /\ k.pc # "idle")
           => /\ \A f \in RequiredFields(k.op) : ~HasKey(k.args, f) => NamesField(k, f)
              /\ \A f \in OptionalFields(k.op) : ~HasKey(k.args, f) => ~NamesField(k, f)
              /\ ValidButForOptional(k.op, k.args)
                   => (~Rejected(k) /\ Len(k.reqs) = 1)

\* queryHistoricalData without details has been rejected with a validation
\* error naming details
C20_Witness ==
    \E c \in CallIds :
        /\ ToolCallOf(calls[c], "queryHistoricalData")
        /\ calls[c].args = Without(QueryBase, "details")
        /\ NamesField(calls[c], "details")
        /\ calls[c].reqs = <<>>

\* queryMunicipalitiesData without monthDetail has been accepted
C20_WitnessOptional ==
    \E c \in CallIds :
        /\ ToolCallOf(calls[c], "queryMunicipalitiesData")
        /\ calls[c].args = Without(QueryBase, "monthDetail")
        /\ Len(calls[c].reqs) = 1
        /\ ~Rejected(calls[c])

---------------------------------------------------------------------------
\* the parameters each tool's schema marks optional without a default
OptionalNoDefault(tool) ==
    CASE tool \in QueryTools -> {"filters"}
      [] tool = "getFilterValues" -> {"language"}
      [] tool = "getAuxiliaryTable" -> {"search", "page", "pageSize"}
      [] tool = "getCountries" -> {"search"}
      [] tool = "getEconomicBlocks" -> {"add", "search"}
      [] tool = "getHarmonizedSystem" -> {"add"}
      [] tool = "getNBM" -> {"add", "search"}
      [] OTHER -> {}

\* what the outbound request carries for the parameter: filters travels in
\* the body, every other parameter in the query
Outbound(req, f) ==
    IF f = "filters" THEN Get(req.data, "filters") ELSE QueryParam(req, f)

\* the tool invocation passed validation and issued its request
Requested(k) == k.via = "tool" /\ k.pc # "idle" /\ Len(k.reqs) = 1

\* C21 as stated: a parameter marked optional with no declared default,
\* when the caller omits it, stays absent all the way to the outbound
\* request (the filters of the query operations, the language of
\* getFilterValues, the search and add of the table operations).
C21_OmittedOptionalStaysAbsent ==
    \A c \in CallIds :
        LET k == calls[c]
        IN Requested(k)
           => \A f \in OptionalNoDefault(k.op) :
                  ~HasKey(k.args, f) => IsUndefined(Outbound(k.reqs[1], f))

\* the value the handler or the client method puts in for an omitted
\* parameter, undefined when it puts in none
FallbackValue(tool, f) ==
    CASE f = "filters" -> Arr(<<>>)
      [] tool = "getFilterValues" /\ f = "language" -> Str("pt")
      [] tool = "getAuxiliaryTable" /\ f = "page" -> Num(1)
      [] tool = "getAuxiliaryTable" /\ f = "pageSize" -> Num(100)
      [] OTHER -> Undefined

\* C21 as amended: for a parameter marked optional with no declared default
\* that the caller omits, validation synthesizes no value; the omitted search
\* and add parameters of the table operations stay absent from the outbound
\* request, whereas an omitted filters is sent as the empty array, the
\* omitted language of getFilterValues as "pt", and the omitted page and
\* pageSize of getAuxiliaryTable as 1 and 100.
C21_OmittedOptionalAfterValidation ==
    \A c \in CallIds :
        LET k == calls[c]
        IN Requested(k)
           => \A f \in OptionalNoDefault(k.op) :
                  ~HasKey(k.args, f)
                    => /\ ~HasKey(k.parsed, f)
                       /\ Outbound(k.reqs[1], f) = FallbackValue(k.op, f)
                       /\ f \in {"search", "add"} => IsUndefined(Outbound(k.reqs[1], f))

\* getNBM invoked without search and add has sent neither
C21_Witness ==
    \E c \in CallIds :
        /\ ToolCallOf(calls[c], "getNBM")
        /\ calls[c].args = One("language", Str("en"))
        /\ Len(calls[c].reqs) = 1
        /\ EffectiveQuery(calls[c].reqs[1]) =
               << <<"language", Str("en")>>, <<"page", Num(1)>>, <<"perPage", Num(5)>> >>

\* queryData invoked without filters has sent the empty array
C21_WitnessFilters ==
    \E c \in CallIds :
        /\ ToolCallOf(calls[c], "queryData")
        /\ calls[c].args = Without(QueryBase, "filters")
        /\ Len(calls[c].reqs) = 1
        /\ ~HasKey(calls[c].parsed, "filters")
        /\ Get(calls[c].reqs[1].data, "filters") = Arr(<<>>)

---------------------------------------------------------------------------
MonthDetailDefaulted == {"queryMunicipalitiesData", "queryHistoricalData"}

\* the arguments are valid but for monthDetail, which is left out or a boolean
ValidButForMonthDetail(args) ==
    \/ args = Without(QueryBase, "monthDetail")
    \/ \E b \in {Bool(TRUE), Bool(FALSE)} : args = With(QueryBase, "monthDetail", b)

\* C22: for queryMunicipalitiesData and queryHistoricalData an invocation
\* that omits monthDetail is accepted and its POST body carries
\* monthDetail = false; a monthDetail the caller supplies is sent unchanged.
C22_MonthDetailDefaultsFalse ==
    \A c \in CallIds :
        LET k == calls[c]
        IN (k.via = "tool" /\ k.pc # "idle" /\ k.op \in MonthDetailDefaulted)
           => /\ ValidButForMonthDetail(k.args) => Len(k.reqs) = 1
              /\ Len(k.reqs) = 1
                   => /\ k.reqs[1].method = "POST"
                      /\ Get(k.reqs[1].data, "monthDetail") =
                             (IF HasKey(k.args, "monthDetail")
                              THEN Get(k.args, "monthDetail") ELSE Bool(FALSE))

\* queryHistoricalData without monthDetail has posted monthDetail = false
C22_Witness ==
    \E c \in CallIds :
        /\ ToolCallOf(calls[c], "queryHistoricalData")
        /\ calls[c].args = Without(QueryBase, "monthDetail")
        /\ Len(calls[c].reqs) = 1
        /\ Get(calls[c].reqs[1].data, "monthDetail") = Bool(FALSE)

\* queryMunicipalitiesData with monthDetail = true has posted it unchanged
C22_WitnessSupplied ==
    \E c \in CallIds :
        /\ ToolCallOf(calls[c], "queryMunicipalitiesData")
        /\ Get(calls[c].args, "monthDetail") = Bool(TRUE)
        /\ Len(calls[c].reqs) = 1
        /\ Get(calls[c].reqs[1].data, "monthDetail") = Bool(TRUE)

---------------------------------------------------------------------------
\* the path of each table operation that takes an options object
OptionsPath(tool) ==
    CASE tool = "getEconomicBlocks" -> "/tables/economic-blocks"
      [] tool = "getHarmonizedSystem" -> "/tables/hs"
      [] OTHER -> "/tables/nbm"

\* the query parameters each of them declares a default for, in the order
\* they are sent
DeclaredDefaults(tool) ==
    CASE tool = "getEconomicBlocks" -> << <<"language", Str("pt")>> >>
      [] tool = "getHarmonizedSystem" ->
           << <<"language", Str("pt")>>, <<"page", Num(1)>>, <<"perPage", Num(10)>> >>
      [] OTHER ->
           << <<"language", Str("pt")>>, <<"page", Num(1)>>, <<"perPage", Num(5)>> >>

\* C23: getEconomicBlocks, getHarmonizedSystem and getNBM accept an
\* invocation with no arguments, and the GET then carries the declared
\* defaults as query parameters: language = "pt" for all three, page = 1 and
\* perPage = 10 for getHarmonizedSystem (/tables/hs), page = 1 and
\* perPage = 5 for getNBM (/tables/nbm); values the caller supplies replace
\* the defaults.
C23_TableOptionsDefaults ==
    \A c \in CallIds :
        LET k == calls[c]
            defaults == DeclaredDefaults(k.op)
        IN (k.via = "tool" /\ k.pc # "idle" /\ k.op \in OptionsTools)
           => /\ k.args = Obj(<<>>)
                   => /\ Len(k.reqs) = 1
                      /\ EffectiveQuery(k.reqs[1]) = defaults
              /\ Len(k.reqs) = 1
                   => /\ k.reqs[1].method = "GET"
                      /\ k.reqs[1].url = OptionsPath(k.op)
                      /\ \A i \in 1..Len(defaults) :
                             QueryParam(k.reqs[1], defaults[i][1]) =
                                 (IF HasKey(k.args, defaults[i][1])
                                  THEN Get(k.args, defaults[i][1])
                                  ELSE defaults[i][2])

\* getHarmonizedSystem invoked with no arguments has sent language = pt,
\* page = 1 and perPage = 10
C23_Witness ==
    \E c \in CallIds :
        /\ ToolCallOf(calls[c], "getHarmonizedSystem")
        /\ calls[c].args = Obj(<<>>)
        /\ Len(calls[c].reqs) = 1
        /\ calls[c].reqs[1].url = "/tables/hs"
        /\ EffectiveQuery(calls[c].reqs[1]) =
               << <<"language", Str("pt")>>, <<"page", Num(1)>>, <<"perPage", Num(10)>> >>

\* getNBM invoked with page = 3 and perPage = 0 has sent both as given
C23_WitnessSupplied ==
    \E c \in CallIds :
        /\ ToolCallOf(calls[c], "getNBM")
        /\ calls[c].args = Two("page", Num(3), "perPage", Num(0))
        /\ Len(calls[c].reqs) = 1
        /\ QueryParam(calls[c].reqs[1], "page") = Num(3)
        /\ QueryParam(calls[c].reqs[1], "perPage") = Num(0)

---------------------------------------------------------------------------
\* both bounds are strings matching ^\d{4}-\d{2}$
WellFormedPeriod(p) ==
    /\ IsObj(p)
    /\ Keys(p) = <<"from", "to">>
    /\ ~MalformedBound(Get(p, "from"))
    /\ ~MalformedBound(Get(p, "to"))

\* C24: each period bound is checked only against the pattern
\* ^\d{4}-\d{2}$ and independently of the other: a period with from later
\* than to, or with a month that is no calendar month, is accepted by the
\* validator and by the pre-flight check and forwarded unchanged.
C24_PeriodCheckedByPatternOnly ==
    \A c \in CallIds :
        LET k == calls[c]
            p == Get(k.args, "period")
        IN (k.pc # "idle" /\ k.op \in QueryTools
              /\ WellFormedPeriod(p) /\ k.args = With(QueryBase, "period", p))
           => /\ Len(k.reqs) = 1
              /\ k.reqs[1].method = "POST"
              /\ Get(k.reqs[1].data, "period") = p
              /\ k.via = "tool" => Get(k.parsed, "period") = p

\* a period from 2023-12 to 2023-01 has been posted unchanged
C24_Witness ==
    \E c \in CallIds :
        /\ ToolCallOf(calls[c], "queryData")
        /\ Get(calls[c].args, "period") = Period(Str("2023-12"), Str("2023-01"))
        /\ Len(calls[c].reqs) = 1
        /\ Get(calls[c].reqs[1].data, "period") = Period(Str("2023-12"), Str("2023-01"))

\* a period whose bounds name a thirteenth month has been posted unchanged
C24_WitnessMonth ==
    \E c \in CallIds :
        /\ ClientCallOf(calls[c], "queryHistoricalData")
        /\ Get(calls[c].args, "period") = Period(Str("2023-13"), Str("2023-13"))
        /\ Len(calls[c].reqs) = 1
        /\ Get(calls[c].reqs[1].data, "period") = Period(Str("2023-13"), Str("2023-13"))

---------------------------------------------------------------------------
AllNumbers(values) == IsArr(values) /\ \A i \in 1..Len(values.arr) : IsNum(values.arr[i])

AllStrings(values) == IsArr(values) /\ \A i \in 1..Len(values.arr) : IsStr(values.arr[i])

\* filters is an array of {filter, values} clauses with a string for filter
\* and an array for values
IsClauseList(filters) ==
    /\ IsArr(filters)
    /\ \A i \in 1..Len(filters.arr) :
           /\ IsStr(Get(filters.arr[i], "filter"))
           /\ IsArr(Get(filters.arr[i], "values"))

\* the names are all of queryData's eight
NamesListed(names) ==
    \A i \in 1..Len(names.arr) : IsStr(names.arr[i]) /\ names.arr[i].str \in FilterNames

MetricsListed(names) ==
    \A i \in 1..Len(names.arr) : IsStr(names.arr[i]) /\ names.arr[i].str \in MetricNames

\* the tool takes the filter clauses of the list
ClausesTaken(tool, filters) ==
    \A i \in 1..Len(filters.arr) :
        LET clause == filters.arr[i]
        IN /\ \/ AllNumbers(Get(clause, "values"))
              \/ tool = "queryHistoricalData" /\ AllStrings(Get(clause, "values"))
           /\ tool = "queryData" => Get(clause, "filter").str \in FilterNames

\* C25: queryHistoricalData accepts a filter clause whose values is an array
\* of numbers or an array of strings, while queryData and
\* queryMunicipalitiesData accept an array of numbers only and reject a
\* clause whose values contains a string; queryMunicipalitiesData and
\* queryHistoricalData accept any string as a filter, detail or metric name,
\* unlike queryData.
C25_FilterValuesAndFreeNames ==
    \A c \in CallIds :
        LET k == calls[c]
            filters == Get(k.args, "filters")
            details == Get(k.args, "details")
            metrics == Get(k.args, "metrics")
        IN (k.via = "tool" /\ k.pc # "idle" /\ k.op \in QueryTools)
           => /\ (k.args = With(QueryBase, "filters", filters) /\ IsClauseList(filters))
                   => (Len(k.reqs) = 1 <=> ClausesTaken(k.op, filters))
              /\ (k.args = With(QueryBase, "details", details) /\ AllStrings(details))
                   => (Len(k.reqs) = 1 <=> (k.op = "queryData" => NamesListed(details)))
              /\ (k.args = With(QueryBase, "metrics", metrics) /\ AllStrings(metrics))
                   => (Len(k.reqs) = 1 <=> (k.op = "queryData" => MetricsListed(metrics)))
              /\ Len(k.reqs) = 0 => Rejected(k)

\* queryHistoricalData has accepted a clause whose values are strings
C25_Witness ==
    \E c \in CallIds :
        /\ ToolCallOf(calls[c], "queryHistoricalData")
        /\ Get(calls[c].args, "filters") = Arr(<<FilterClause("country", Strs(<<"105">>))>>)
        /\ Len(calls[c].reqs) = 1
        /\ Get(calls[c].reqs[1].data, "filters") =
               Arr(<<FilterClause("country", Strs(<<"105">>))>>)

\* queryMunicipalitiesData has rejected a clause whose values are strings
C25_WitnessRejected ==
    \E c \in CallIds :
        /\ ToolCallOf(calls[c], "queryMunicipalitiesData")
        /\ Get(calls[c].args, "filters") = Arr(<<FilterClause("country", Strs(<<"105">>))>>)
        /\ Rejected(calls[c])

\* queryMunicipalitiesData has accepted the filter name city, which
\* queryData does not list
C25_WitnessFreeName ==
    \E c \in CallIds :
        /\ ToolCallOf(calls[c], "queryMunicipalitiesData")
        /\ Get(calls[c].args, "filters") = Arr(<<FilterClause("city", Nums(<<5300050>>))>>)
        /\ Len(calls[c].reqs) = 1

---------------------------------------------------------------------------
TableLists == {"getStates", "getCities", "getCountries"}

TableDetails == {"getStateDetails", "getCityDetails", "getCountryDetails", "getNBMDetails"}

\* the path of each table operation, up to the identifier
TablePath(op) ==
    CASE op = "getStates" -> "/tables/uf"
      [] op = "getCities" -> "/tables/cities"
      [] op = "getCountries" -> "/tables/countries"
      [] op = "getStateDetails" -> "/tables/uf/"
      [] op = "getCityDetails" -> "/tables/cities/"
      [] op = "getCountryDetails" -> "/tables/countries/"
      [] OTHER -> "/tables/nbm/"

\* the argument that carries the identifier
IdentifierOf(op) ==
    CASE op = "getStateDetails" -> "ufId"
      [] op = "getCityDetails" -> "cityId"
      [] op = "getCountryDetails" -> "countryId"
      [] OTHER -> "coNbm"

\* the request and the result of a table operation, but for the search
\* parameter of getCountries
TablePassThrough(k) ==
    /\ k.reqs[1].method = "GET"
    /\ k.reqs[1].data = Undefined
    /\ k.op \in TableLists => k.reqs[1].url = TablePath(k.op)
    /\ k.op \in TableDetails
         => k.reqs[1].url = TablePath(k.op) \o Get(k.args, IdentifierOf(k.op)).str
    /\ k.op # "getCountries" => EffectiveQuery(k.reqs[1]) = <<>>
    /\ (Answered(k) /\ k.net.status < 400)
         => /\ k.result = Returned(k.net.data)
            /\ ReturnedJson(k, k.net.data)

\* C26 as stated: the table operations are pass-through GETs to /tables/uf,
\* /tables/cities, /tables/countries (with query search when supplied),
\* /tables/uf/{ufId}, /tables/cities/{cityId}, /tables/countries/{countryId}
\* and /tables/nbm/{coNbm}, and the upstream response object is returned
\* unmodified.
C26_TablesPassThrough ==
    \A c \in CallIds :
        LET k == calls[c]
        IN (Requested(k) /\ k.op \in TableLists \cup TableDetails)
           => /\ TablePassThrough(k)
              /\ k.op = "getCountries"
                   => EffectiveQuery(k.reqs[1]) =
                          (IF HasKey(k.args, "search")
                           THEN << <<"search", Get(k.args, "search")>> >> ELSE <<>>)

\* C26 as amended: the same, the GET of getCountries carrying the query
\* search when a non-empty search is supplied, and no query when search is
\* omitted or empty.
C26_TablesPassThroughNonEmptySearch ==
    \A c \in CallIds :
        LET k == calls[c]
            search == Get(k.args, "search")
        IN (Requested(k) /\ k.op \in TableLists \cup TableDetails)
           => /\ TablePassThrough(k)
              /\ k.op = "getCountries"
                   => EffectiveQuery(k.reqs[1]) =
                          (IF IsStr(search) /\ search.str # ""
                           THEN << <<"search", search>> >> ELSE <<>>)

\* getCityDetails has requested /tables/cities/26 and returned the upstream
\* response as it came
C26_Witness ==
    \E c \in CallIds :
        /\ ToolCallOf(calls[c], "getCityDetails")
        /\ calls[c].args = One("cityId", Str("26"))
        /\ calls[c].reqs = <<getRequest("/tables/cities/26", Undefined)>>
        /\ AnsweredOk(calls[c])
        /\ IsObj(calls[c].net.data)
        /\ calls[c].result = Returned(calls[c].net.data)

\* getCountries has sent the search term it was given
C26_WitnessSearch ==
    \E c \in CallIds :
        /\ ToolCallOf(calls[c], "getCountries")
        /\ calls[c].args = One("search", Str("bra"))
        /\ Len(calls[c].reqs) = 1
        /\ EffectiveQuery(calls[c].reqs[1]) = << <<"search", Str("bra")>> >>

---------------------------------------------------------------------------
\* C27: besides its tools, the server's advertised capabilities include a
\* prompt named 'Export Data Query' and a root with URI '/comexstat-data'.
C27_PromptAndRootAdvertised ==
    /\ catalog = Registered("tool")
    /\ "Export Data Query" \in Registered("prompt")
    /\ "/comexstat-data" \in Registered("root")

\* the server as constructed advertises its twenty tools and nothing else
C27_OnlyToolsAdvertised ==
    /\ catalog = Registered("tool")
    /\ Cardinality(catalog) = 20
    /\ Registered("prompt") = {}
    /\ Registered("root") = {}

---------------------------------------------------------------------------
\* the period passes the schema of the three query tools
SchemaAccepts(p) == Parse(periodSchema, p, <<>>).ok

\* the period passes the check the client methods make before their POST
PreflightAccepts(p) == PeriodCheck(p) = Returned(p)

\* both bounds of the period are strings
StringBounds(p) == IsObj(p) /\ IsStr(Get(p, "from")) /\ IsStr(Get(p, "to"))

\* the arguments pass the schema of the tool
PassesValidation(tool, args) == Parse(ToolSchema(tool), args, <<>>).ok

\* an invocation through the registry never ends in the malformed-period
\* error, and one that passes validation issues its POST
RegistryNeverFailsPreflight(k) ==
    (k.via = "tool" /\ k.pc # "idle" /\ k.op \in QueryTools)
    => /\ k.result # Threw(PeriodError)
       /\ ~(IsThrew(k.outcome) /\ k.outcome.error = PeriodError)
       /\ PassesValidation(k.op, k.args)
            => /\ Len(k.reqs) = 1
               /\ k.reqs[1].method = "POST"

\* C28 as stated: the tool-schema period check and the client's pre-flight
\* period check accept exactly the same period values, so through the tool
\* registry the pre-flight malformed-period error is unreachable and every
\* invocation of the three query tools that passes validation issues its POST.
C28_SamePeriodsAccepted ==
    \A c \in CallIds :
        LET k == calls[c]
            p == Get(k.args, "period")
        IN /\ (k.pc # "idle" /\ k.op \in QueryTools)
                => (SchemaAccepts(p) <=> PreflightAccepts(p))
           /\ RegistryNeverFailsPreflight(k)

\* C28 as amended: every period the schema accepts passes the pre-flight
\* check, and the two agree on periods whose bounds are strings (the
\* pre-flight check alone also passes a bound that is no string but whose
\* string form matches); through the tool registry the malformed-period error
\* is unreachable and every validated invocation issues its POST.
C28_SchemaAcceptedPassesPreflight ==
    \A c \in CallIds :
        LET k == calls[c]
            p == Get(k.args, "period")
        IN /\ (k.pc # "idle" /\ k.op \in QueryTools)
                => /\ SchemaAccepts(p) => PreflightAccepts(p)
                   /\ StringBounds(p) => (SchemaAccepts(p) <=> PreflightAccepts(p))
           /\ RegistryNeverFailsPreflight(k)

\* a queryMunicipalitiesData invocation through the registry, its period
\* accepted by the schema and by the pre-flight check, has issued its POST
C28_Witness ==
    \E c \in CallIds :
        LET k == calls[c]
            p == Get(k.args, "period")
        IN /\ ToolCallOf(k, "queryMunicipalitiesData")
           /\ p = Period(Str("2023-01"), Str("2023-13"))
           /\ SchemaAccepts(p) /\ PreflightAccepts(p)
           /\ Len(k.reqs) = 1
           /\ k.reqs[1].method = "POST"

\* a direct client call whose period the schema would refuse has passed the
\* pre-flight check and issued its POST
C28_WitnessDirect ==
    \E c \in CallIds :
        LET k == calls[c]
            p == Get(k.args, "period")
        IN /\ ClientCallOf(k, "queryData")
           /\ p = Period(Arr(<<Str("2023-01")>>), Str("2023-12"))
           /\ ~SchemaAccepts(p) /\ PreflightAccepts(p)
           /\ Len(k.reqs) = 1

\* a direct client call with a malformed string bound has been refused by
\* the pre-flight check, as the schema would have refused it
C28_WitnessRefused ==
    \E c \in CallIds :
        LET k == calls[c]
            p == Get(k.args, "period")
        IN /\ ClientCallOf(k, "queryHistoricalData")
           /\ p = Period(Str("2023-1"), Str("2023-12"))
           /\ ~SchemaAccepts(p) /\ ~PreflightAccepts(p)
           /\ k.result = Threw(PeriodError)

---------------------------------------------------------------------------
\* the endpoints that take a language
LanguageEndpoint(url) ==
    \/ url \in {"/general/filters", "/general/details", "/general/metrics",
                "/general", "/cities", "/historical-data"}
    \/ Len(url) >= 17 /\ SubSeq(url, 1, 17) = "/general/filters/"

\* the invocation has issued its request to one of them
AsksWithLanguage(k) ==
    k.pc # "idle" /\ Len(k.reqs) = 1 /\ LanguageEndpoint(k.reqs[1].url)

\* through the three list tools the language sent is "pt"
ListToolsSendPt(k) ==
    (k.via = "tool" /\ k.op \in ListOps)
    => EffectiveQuery(k.reqs[1]) = << <<"language", Str("pt")>> >>

\* C29 as stated: every request to /general/filters, /general/filters/{filter},
\* /general/details, /general/metrics, /general, /cities and /historical-data
\* carries a language query parameter, "pt" whenever the caller supplied none;
\* through getAvailableFilters, getAvailableFields and getAvailableMetrics the
\* language sent is always "pt".
C29_LanguageAlwaysCarried ==
    \A c \in CallIds :
        LET k == calls[c]
            supplied == Get(k.args, "language")
        IN AsksWithLanguage(k)
           => /\ \E l \in {Str("pt"), Str("en"), supplied} :
                    /\ ~IsNullish(l)
                    /\ EffectiveQuery(k.reqs[1]) = << <<"language", l>> >>
              /\ (IsNullish(supplied) \/ (k.via = "tool" /\ k.op \in ListOps))
                   => QueryParam(k.reqs[1], "language") = Str("pt")

\* C29 as amended: a request to one of these endpoints carries as language
\* the string the caller supplied, and "pt" when the language is omitted or
\* undefined; a request issued for a tool invocation always carries one, and
\* through getAvailableFilters, getAvailableFields and getAvailableMetrics it
\* is always "pt"; a direct client call that passes null as language sends no
\* language parameter.
C29_LanguageCarriedUnlessNull ==
    \A c \in CallIds :
        LET k == calls[c]
            supplied == IF k.via = "tool" /\ k.op \in ListOps THEN Undefined
                        ELSE Get(k.args, "language")
            sent == IF IsUndefined(supplied) THEN Str("pt") ELSE supplied
        IN AsksWithLanguage(k)
           => /\ EffectiveQuery(k.reqs[1]) =
                     (IF IsNull(sent) THEN <<>> ELSE << <<"language", sent>> >>)
              /\ k.via = "tool" => IsStr(sent)
              /\ ListToolsSendPt(k)

\* getAvailableMetrics, invoked through its tool with a language of "en" among
\* the arguments, has asked /general/metrics with language "pt"
C29_Witness ==
    \E c \in CallIds :
        /\ ToolCallOf(calls[c], "getAvailableMetrics")
        /\ calls[c].args = One("language", Str("en"))
        /\ calls[c].reqs = <<getRequest("/general/metrics", LanguageParam(Str("pt")))>>

\* a queryHistoricalData invocation that names no language has posted with
\* language "pt"
C29_WitnessDefault ==
    \E c \in CallIds :
        /\ ToolCallOf(calls[c], "queryHistoricalData")
        /\ ~HasKey(calls[c].args, "language")
        /\ Len(calls[c].reqs) = 1
        /\ calls[c].reqs[1].url = "/historical-data"
        /\ EffectiveQuery(calls[c].reqs[1]) = << <<"language", Str("pt")>> >>

\* a direct getAvailableFilters call with language null has asked
\* /general/filters with no query parameter
C29_WitnessNull ==
    \E c \in CallIds :
        /\ ClientCallOf(calls[c], "getAvailableFilters")
        /\ Get(calls[c].args, "language") = Null
        /\ Len(calls[c].reqs) = 1
        /\ calls[c].reqs[1].url = "/general/filters"
        /\ EffectiveQuery(calls[c].reqs[1]) = <<>>

---------------------------------------------------------------------------
\* the operations whose path ends in an identifier of the caller
IdentifierOps ==
    {"getFilterValues", "getAuxiliaryTable", "getStateDetails", "getCityDetails",
     "getCountryDetails", "getNBMDetails"}

\* the segments of the path template of the operation, up to the identifier
TemplateSegments(op) ==
    LET segments == Tail(SplitAt(OwnRequestLine(op)[2], "/"))
    IN IF OwnRequestLine(op)[3] = "" THEN segments
       ELSE SubSeq(segments, 1, Len(segments) - 1)

\* the request addresses the endpoint of the operation: its method and its
\* path, followed by one segment where the template ends in an identifier
Addresses(req, op) ==
    LET template == TemplateSegments(op)
        segments == PathSegments(req)
    IN /\ req.method = OwnRequestLine(op)[1]
       /\ IF OwnRequestLine(op)[3] = ""
          THEN segments = template
          ELSE /\ Len(segments) = Len(template) + 1
               /\ SubSeq(segments, 1, Len(template)) = template
               /\ segments[Len(segments)] # ""

\* C30: the request path of an operation is its own path template with the
\* caller's identifier as exactly one path segment, and no accepted value of
\* filter, table, ufId, cityId, countryId or coNbm makes getFilterValues,
\* getAuxiliaryTable, getStateDetails, getCityDetails, getCountryDetails or
\* getNBMDetails address an endpoint that belongs to a different operation.
C30_IdentifierIsOnePathSegment ==
    \A c \in CallIds :
        LET k == calls[c]
            identifier == Get(k.args, OwnRequestLine(k.op)[3])
        IN (Requested(k) /\ k.op \in IdentifierOps)
           => /\ PathSegments(k.reqs[1])
                     = Append(TemplateSegments(k.op), identifier.str)
              /\ \A t \in CatalogOperations \ {k.op} : ~Addresses(k.reqs[1], t)

\* the same for identifiers that hold no '/': the path is the template
\* followed by the identifier
C30_PlainIdentifierAppended ==
    \A c \in CallIds :
        LET k == calls[c]
            identifier == Get(k.args, OwnRequestLine(k.op)[3])
        IN (Requested(k) /\ k.op \in IdentifierOps
              /\ Len(SplitAt(identifier.str, "/")) = 1
              /\ identifier.str \notin {".", ".."})
           => /\ PathSegments(k.reqs[1])
                     = Append(TemplateSegments(k.op), identifier.str)
              /\ Pathname(k.reqs[1]) = k.reqs[1].url
              /\ \A t \in CatalogOperations \ {k.op} : ~Addresses(k.reqs[1], t)

\* getStateDetails, invoked with the ufId "../cities", has addressed the
\* endpoint of getCities
C30_CrossedToCities ==
    \E c \in CallIds :
        /\ ToolCallOf(calls[c], "getStateDetails")
        /\ calls[c].args = One("ufId", Str("../cities"))
        /\ Len(calls[c].reqs) = 1
        /\ calls[c].reqs[1].url = "/tables/uf/../cities"
        /\ Pathname(calls[c].reqs[1]) = "/tables/cities"
        /\ Addresses(calls[c].reqs[1], "getCities")

\* getFilterValues, invoked with the filter "../details", has addressed the
\* endpoint of getAvailableFields
C30_CrossedToDetails ==
    \E c \in CallIds :
        /\ ToolCallOf(calls[c], "getFilterValues")
        /\ Get(calls[c].args, "filter") = Str("../details")
        /\ Len(calls[c].reqs) = 1
        /\ Pathname(calls[c].reqs[1]) = "/general/details"
        /\ Addresses(calls[c].reqs[1], "getAvailableFields")

\* getCityDetails, invoked with the cityId "a/b", has asked a path of two
\* segments after /tables/cities
C30_TwoSegments ==
    \E c \in CallIds :
        /\ ToolCallOf(calls[c], "getCityDetails")
        /\ calls[c].args = One("cityId", Str("a/b"))
        /\ Len(calls[c].reqs) = 1
        /\ PathSegments(calls[c].reqs[1]) = <<"tables", "cities", "a", "b">>
====
